---- MODULE Spec2Model ----
(***************************************************************************)
(* A model of the CSV ingestion -> profiling -> normalization ->           *)
(* materialization pipeline of src/src/normalizer.py, together with the    *)
(* connection handling of src/src/database.py that it relies on.           *)
(*                                                                         *)
(* A DataFrame is a record [cols, rows]: cols is the ordered list of       *)
(* column names, rows the ordered list of rows, each row a function from   *)
(* the column names to a cell.  A cell is NULL, an integer or a string.    *)
(* Names are TLA+ strings; the string operators below work on them         *)
(* character by character, as the Python string methods do.                *)
(***************************************************************************)
EXTENDS Integers, Sequences, FiniteSets, TLC

(***************************************************************************)
(* Bounds of the explored inputs.                                          *)
(***************************************************************************)
MaxCols == 2
MaxRows == 2
MaxFullRows == 3
MaxPairRows == 1
MaxNameLen == 3
MaxQueryLen == 3
MaxHistory == 3
MaxClock == 2
MaxRetries == 2
MaxTtl == 1
MaxCacheCalls == 3

(***************************************************************************)
(* Program constants.                                                      *)
(***************************************************************************)
PairColumnLimit == 8
MaxCandidatePairs == 3

(***************************************************************************)
(* Cells.                                                                  *)
(***************************************************************************)
NULL == <<"NA">>
IntVal(n) == <<"int", n>>
StrVal(s) == <<"str", s>>

Range(s) == {s[k] : k \in 1..Len(s)}
Min(a, b) == IF a < b THEN a ELSE b

(***************************************************************************)
(* Python string methods.                                                  *)
(***************************************************************************)
Char(s, k) == SubSeq(s, k, k)

StartsWith(s, p) == Len(s) >= Len(p) /\ SubSeq(s, 1, Len(p)) = p

EndsWith(s, p) == Len(s) >= Len(p) /\ SubSeq(s, Len(s) - Len(p) + 1, Len(s)) = p

Contains(s, p) == \E k \in 1..Len(s) : StartsWith(SubSeq(s, k, Len(s)), p)

UpperChars == "ABCDEFGHIJKLMNOPQRSTUVWXYZ"
LowerChars == "abcdefghijklmnopqrstuvwxyz"
Whitespace == {" ", "\t"}

ToLower ==
    [c \in {Char(UpperChars, k) : k \in 1..Len(UpperChars)} |->
        Char(LowerChars, CHOOSE k \in 1..Len(UpperChars) : Char(UpperChars, k) = c)]

LowerChar(c) == IF c \in DOMAIN ToLower THEN ToLower[c] ELSE c

RECURSIVE Lower(_)
Lower(s) == IF s = "" THEN "" ELSE LowerChar(Char(s, 1)) \o Lower(SubSeq(s, 2, Len(s)))

\* str.replace(old, new), old of any length: non-overlapping, left to right.
RECURSIVE Replace(_, _, _)
Replace(s, old, new) ==
    IF s = "" THEN ""
    ELSE IF StartsWith(s, old)
         THEN new \o Replace(SubSeq(s, Len(old) + 1, Len(s)), old, new)
         ELSE Char(s, 1) \o Replace(SubSeq(s, 2, Len(s)), old, new)

RECURSIVE LStrip(_, _)
LStrip(s, chars) ==
    IF s # "" /\ Char(s, 1) \in chars THEN LStrip(SubSeq(s, 2, Len(s)), chars) ELSE s

RECURSIVE RStrip(_, _)
RStrip(s, chars) ==
    IF s # "" /\ Char(s, Len(s)) \in chars THEN RStrip(SubSeq(s, 1, Len(s) - 1), chars) ELSE s

Strip(s, chars) == RStrip(LStrip(s, chars), chars)

\* while "__" in normalized: normalized = normalized.replace("__", "_")
RECURSIVE CollapseUnderscores(_)
CollapseUnderscores(s) ==
    IF Contains(s, "__") THEN CollapseUnderscores(Replace(s, "__", "_")) ELSE s

\* CsvIngestionEngine._normalize_name
NormalizeName(name) ==
    LET a == Replace(Lower(Strip(name, Whitespace)), " ", "_")
        b == Replace(Replace(a, "-", "_"), "/", "_")
    IN  Strip(CollapseUnderscores(b), {"_"})

\* CsvIngestionEngine._derive_table_name, of the file's stem
DeriveTableName(stem) == Replace(Lower(stem), " ", "_")

(***************************************************************************)
(* DataFrames.                                                             *)
(***************************************************************************)
Frame(cols, rows) == [cols |-> cols, rows |-> rows]

Columns(df) == Range(df.cols)

HasCol(df, c) == c \in Columns(df)

\* df[c] as the list of its cells
Column(df, c) == [k \in 1..Len(df.rows) |-> df.rows[k][c]]

\* Series.is_unique: no value occurs twice, a null counting as a value
IsUnique(s) == \A a, b \in 1..Len(s) : a # b => s[a] # s[b]

\* Series.notna().all()
NotNaAll(s) == \A k \in 1..Len(s) : s[k] # NULL

\* df[cols]
Project(df, cols) ==
    Frame(cols, [k \in 1..Len(df.rows) |-> [c \in Range(cols) |-> df.rows[k][c]]])

\* DataFrame.drop_duplicates(): the first occurrence of every row is kept
RECURSIVE DropDuplicateRows(_)
DropDuplicateRows(rows) ==
    IF rows = <<>> THEN <<>>
    ELSE LET init == DropDuplicateRows(SubSeq(rows, 1, Len(rows) - 1))
             last == rows[Len(rows)]
         IN  IF \E k \in 1..Len(init) : init[k] = last THEN init ELSE Append(init, last)

DropDuplicates(df) == Frame(df.cols, DropDuplicateRows(df.rows))

\* DataFrame.dropna(subset=[c])
DropNa(df, c) == Frame(df.cols, SelectSeq(df.rows, LAMBDA r : r[c] # NULL))

\* DataFrame.drop(columns=cols)
DropColumns(df, cols) ==
    LET kept == SelectSeq(df.cols, LAMBDA c : c \notin Range(cols))
    IN  Frame(kept, [k \in 1..Len(df.rows) |-> [c \in Range(kept) |-> df.rows[k][c]]])

\* df[c] = values: an existing column is overwritten in place, a new one appended
SetColumn(df, c, values) ==
    Frame(IF HasCol(df, c) THEN df.cols ELSE Append(df.cols, c),
          [k \in 1..Len(df.rows) |->
              [x \in Columns(df) \cup {c} |-> IF x = c THEN values[k] ELSE df.rows[k][x]]])

\* pd.concat([a, b], ignore_index=True): the union of the columns, a's first,
\* a cell of a column the frame lacks being null
ConcatFrames(a, b) ==
    LET cols == a.cols \o SelectSeq(b.cols, LAMBDA c : ~HasCol(a, c))
        Widen(df, r) == [c \in Range(cols) |-> IF HasCol(df, c) THEN r[c] ELSE NULL]
    IN  Frame(cols,
              [k \in 1..Len(a.rows) |-> Widen(a, a.rows[k])]
              \o [k \in 1..Len(b.rows) |-> Widen(b, b.rows[k])])

(***************************************************************************)
(* Ordered dictionaries of tables: a list of records with distinct names.  *)
(***************************************************************************)
IndexOf(d, name) ==
    IF \E k \in 1..Len(d) : d[k].name = name
    THEN CHOOSE k \in 1..Len(d) : d[k].name = name
    ELSE 0

\* an insertion that keeps the entry a name already has (dict.setdefault)
DictPutKeepFirst(d, t) == IF IndexOf(d, t.name) # 0 THEN d ELSE Append(d, t)

\* d[t.name] = t: an existing key keeps its position
DictPut(d, t) ==
    IF IndexOf(d, t.name) = 0 THEN Append(d, t)
    ELSE [d EXCEPT ![IndexOf(d, t.name)] = t]

\* {**a, **b}
RECURSIVE DictMerge(_, _)
DictMerge(a, b) == IF b = <<>> THEN a ELSE DictMerge(DictPut(a, Head(b)), Tail(b))

(***************************************************************************)
(* Ingestion: CsvIngestionEngine.load over the candidate files.  A file is  *)
(* [stem, header, rows, exists, fault]: the raw header names, the parsed   *)
(* cells, whether the path exists, and what reading it runs into.          *)
(***************************************************************************)
\* what reading a file can run into:
\*   "open"                 open() raises in _detect_encoding (not a decoding error)
\*   "bad_delimiter"        pd.read_csv raises ValueError("... bad delimiter ..."),
\*                          the retry with sep=None succeeds
\*   "bad_delimiter_twice"  the same, and the retry raises too
\*   "parse"                pd.read_csv raises any other error
Faults == {"none", "open", "bad_delimiter", "bad_delimiter_twice", "parse"}

\* _load_file raises
LoadRaises(f) == f.fault \in {"open", "bad_delimiter_twice", "parse"}

\* the calls of pd.read_csv that _load_file makes
ReadCalls(f) ==
    CASE f.fault = "open" -> 0
      [] f.fault \in {"bad_delimiter", "bad_delimiter_twice"} -> 2
      [] OTHER -> 1

CsvTable(name, df) == [name |-> name, df |-> df]

\* _load_file: the frame read from the file, its columns standardized
LoadFile(f) ==
    LET cols == [k \in 1..Len(f.header) |-> NormalizeName(f.header[k])]
    IN  CsvTable(DeriveTableName(f.stem),
                 Frame(cols, [r \in 1..Len(f.rows) |->
                                 [c \in Range(cols) |->
                                     f.rows[r][CHOOSE k \in 1..Len(cols) : cols[k] = c]]]))

RECURSIVE LoadFiles(_, _)

\* a loop over the candidates that ends at the first file that fails
AfterLoadErrorBreak(fs, acc) == acc

\* except Exception: logger.exception(...); continue
AfterLoadError(fs, acc) == LoadFiles(Tail(fs), acc)

\* the loop of load() over the candidates
LoadFiles(fs, acc) ==
    IF fs = <<>> THEN acc
    ELSE IF LoadRaises(Head(fs)) THEN AfterLoadError(fs, acc)
    ELSE LoadFiles(Tail(fs), DictPut(acc, LoadFile(Head(fs))))

\* load() with a list of explicit tables: _resolve_path raises for a path that
\* does not exist, before any file is read
ResolveRaises(fs) == \E k \in 1..Len(fs) : ~fs[k].exists

\* a check that never finds the loaded tables empty
EmptyCheckNever(tbls) == FALSE

\* build_normalized_database: `if not tables`
EmptyCheck(tbls) == tbls = <<>>

(***************************************************************************)
(* Profiling: SchemaProfiler._find_candidate_keys.                         *)
(***************************************************************************)
SingleColumnKeys(df) ==
    LET s == SelectSeq(df.cols, LAMBDA c : IsUnique(Column(df, c)) /\ NotNaAll(Column(df, c)))
    IN  [k \in 1..Len(s) |-> <<s[k]>>]

\* subset = df[[a, b]].dropna(); not subset.empty and not subset.duplicated().any()
PairIsKey(df, a, b) ==
    LET subset == SelectSeq(df.rows, LAMBDA r : r[a] # NULL /\ r[b] # NULL)
    IN  /\ subset # <<>>
        /\ IsUnique([k \in 1..Len(subset) |-> <<subset[k][a], subset[k][b]>>])

\* the two nested loops over limited_columns, returning at the third pair
RECURSIVE PairScan(_, _, _, _, _)
PairScan(df, limited, a, b, acc) ==
    IF a > Len(limited) THEN acc
    ELSE IF b > Len(limited) THEN PairScan(df, limited, a + 1, a + 2, acc)
    ELSE IF PairIsKey(df, limited[a], limited[b])
         THEN LET acc2 == Append(acc, <<limited[a], limited[b]>>)
              IN  IF Len(acc2) >= MaxCandidatePairs THEN acc2
                  ELSE PairScan(df, limited, a, b + 1, acc2)
         ELSE PairScan(df, limited, a, b + 1, acc)

FindCandidateKeys(df) ==
    IF SingleColumnKeys(df) # <<>> THEN SingleColumnKeys(df)
    ELSE PairScan(df, SubSeq(df.cols, 1, Min(Len(df.cols), PairColumnLimit)), 1, 2, <<>>)

(***************************************************************************)
(* Normalization: NormalizationEngine.                                     *)
(***************************************************************************)
ForeignKeySpec(column, ref_table, ref_column) ==
    [column |-> column, ref_table |-> ref_table, ref_column |-> ref_column]

NormalizedTable(name, df, primary_key, foreign_keys, source_tables) ==
    [name |-> name, df |-> df, primary_key |-> primary_key,
     foreign_keys |-> foreign_keys, source_tables |-> source_tables]

\* a surrogate column numbered from 0, as range(len(df)) would give
SurrogateValuesFromZero(n) == [k \in 1..n |-> IntVal(k - 1)]

\* pd.Series(range(1, len(df) + 1), dtype="Int64")
SurrogateValues(n) == [k \in 1..n |-> IntVal(k)]

\* the surrogate column's name when the profile lists no candidate key
SurrogateName(table_name, df) ==
    IF HasCol(df, table_name \o "_id") /\ ~IsUnique(Column(df, table_name \o "_id"))
    THEN table_name \o "_surrogate_id"
    ELSE table_name \o "_id"

\* a sort key without the preference for `id` and `{table}_id`
RankKeyBySize(table_name, cols) == <<1, 1, Len(cols)>>

\* the sort key of a candidate key group
RankKey(table_name, cols) ==
    << IF \E k \in 1..Len(cols) : cols[k] = "id" THEN 0 ELSE 1,
       IF \E k \in 1..Len(cols) : cols[k] = table_name \o "_id" THEN 0 ELSE 1,
       Len(cols) >>

\* Python's order on tuples of three integers
KeyLess(x, y) ==
    \/ x[1] < y[1]
    \/ x[1] = y[1] /\ x[2] < y[2]
    \/ x[1] = y[1] /\ x[2] = y[2] /\ x[3] < y[3]

\* the last of the groups with the least key, as an unstable sort may give
RankedFirstUnstable(table_name, candidate_keys) ==
    candidate_keys[CHOOSE k \in 1..Len(candidate_keys) :
        \A m \in 1..Len(candidate_keys) :
            /\ ~KeyLess(RankKey(table_name, candidate_keys[m]), RankKey(table_name, candidate_keys[k]))
            /\ m > k => KeyLess(RankKey(table_name, candidate_keys[k]),
                                RankKey(table_name, candidate_keys[m]))]

\* sorted(candidate_keys, key=...)[0]: sorted() is stable, so the first of the
\* groups with the least key
RankedFirst(table_name, candidate_keys) ==
    candidate_keys[CHOOSE k \in 1..Len(candidate_keys) :
        \A m \in 1..Len(candidate_keys) :
            /\ ~KeyLess(RankKey(table_name, candidate_keys[m]), RankKey(table_name, candidate_keys[k]))
            /\ m < k => KeyLess(RankKey(table_name, candidate_keys[k]),
                                RankKey(table_name, candidate_keys[m]))]

\* a placeholder numbered from 0, as enumerate() without start=1 would give
PlaceholderFromZero(table_name, col, n) ==
    StrVal(table_name \o "_" \o col \o "_missing_" \o ToString(n - 1))

\* f"{table_name}_{col}_missing_{i}"
Placeholder(table_name, col, n) ==
    StrVal(table_name \o "_" \o col \o "_missing_" \o ToString(n))

\* the nulls of one chosen key column replaced, the n-th null by placeholder n
BackfillColumn(table_name, df, col) ==
    Frame(df.cols,
          [k \in 1..Len(df.rows) |->
              IF df.rows[k][col] = NULL
              THEN [df.rows[k] EXCEPT ![col] =
                       Placeholder(table_name, col,
                                   Cardinality({m \in 1..k : df.rows[m][col] = NULL}))]
              ELSE df.rows[k]])

RECURSIVE BackfillColumns(_, _, _)
BackfillColumns(table_name, df, chosen) ==
    IF chosen = <<>> THEN df
    ELSE BackfillColumns(table_name, BackfillColumn(table_name, df, Head(chosen)), Tail(chosen))

\* NormalizationEngine._ensure_primary_key
EnsurePrimaryKey(table_name, df, candidate_keys) ==
    IF candidate_keys = <<>>
    THEN LET surrogate == SurrogateName(table_name, df)
         IN  [primary_key |-> <<surrogate>>,
              df |-> SetColumn(df, surrogate, SurrogateValues(Len(df.rows)))]
    ELSE LET chosen == RankedFirst(table_name, candidate_keys)
         IN  IF \E k \in 1..Len(chosen) : ~HasCol(df, chosen[k])
             THEN [primary_key |-> <<table_name \o "_id">>,
                   df |-> SetColumn(df, table_name \o "_id", SurrogateValues(Len(df.rows)))]
             ELSE [primary_key |-> chosen, df |-> BackfillColumns(table_name, df, chosen)]

\* the loop of _extract_dimension_tables over the columns the frame had on entry;
\* err is the KeyError of df[[column] + non_id_columns] for a column dropped earlier
RECURSIVE ExtractLoop(_, _, _, _, _, _)
ExtractLoop(table_name, snapshot, k, df, primary_key, dimensions) ==
    IF k > Len(snapshot)
    THEN [err |-> FALSE, dimensions |-> dimensions, df |-> df]
    ELSE LET column == snapshot[k]
             prefix == SubSeq(column, 1, Len(column) - 3)
             related == SelectSeq(df.cols, LAMBDA c : StartsWith(c, prefix \o "_"))
             non_id == SelectSeq(related, LAMBDA c : c # column)
             dim_df == DropNa(DropDuplicates(Project(df, <<column>> \o non_id)), column)
         IN  IF column \in Range(primary_key) \/ ~EndsWith(column, "_id")
             THEN ExtractLoop(table_name, snapshot, k + 1, df, primary_key, dimensions)
             ELSE IF non_id = <<>>
             THEN ExtractLoop(table_name, snapshot, k + 1, df, primary_key, dimensions)
             ELSE IF ~HasCol(df, column)
             THEN [err |-> TRUE, dimensions |-> dimensions, df |-> df]
             ELSE IF dim_df.rows = <<>>
             THEN ExtractLoop(table_name, snapshot, k + 1, df, primary_key, dimensions)
             ELSE ExtractLoop(table_name, snapshot, k + 1, DropColumns(df, non_id), primary_key,
                              DictPut(dimensions,
                                      NormalizedTable(prefix \o "_dimension", dim_df,
                                                      <<column>>, <<>>, <<table_name>>)))

\* NormalizationEngine._extract_dimension_tables
ExtractDimensionTables(table_name, df, primary_key) ==
    ExtractLoop(table_name, df.cols, 1, df, primary_key, <<>>)

\* one dimension of a source table entered into self.dimension_tables
MergeDimension(registry, dim) ==
    LET k == IndexOf(registry, dim.name)
    IN  IF k # 0
        THEN [registry EXCEPT
                 ![k].df = DropDuplicates(ConcatFrames(@, dim.df)),
                 ![k].source_tables = @ \o dim.source_tables]
        ELSE Append(registry, dim)

RECURSIVE MergeDimensions(_, _)
MergeDimensions(registry, dimensions) ==
    IF dimensions = <<>> THEN registry
    ELSE MergeDimensions(MergeDimension(registry, Head(dimensions)), Tail(dimensions))

\* a registry that lists the owners of a column latest first
IdRegistryLatestFirst(tbls, column) ==
    LET owners == SelectSeq(tbls, LAMBDA t : column \in Range(t.primary_key))
    IN  [k \in 1..Len(owners) |-> owners[Len(owners) + 1 - k].name]

\* id_registry.get(column, []): the tables that list the column in their key
IdRegistry(tbls, column) ==
    LET owners == SelectSeq(tbls, LAMBDA t : column \in Range(t.primary_key))
    IN  [k \in 1..Len(owners) |-> owners[k].name]

\* the second loop of _register_foreign_keys, for one table
RECURSIVE RegisterColumns(_, _, _, _)
RegisterColumns(tbls, t, k, fks) ==
    IF k > Len(t.df.cols) THEN fks
    ELSE LET column == t.df.cols[k]
             referenced == SelectSeq(IdRegistry(tbls, column), LAMBDA n : n # t.name)
         IN  IF \/ column \in Range(t.primary_key)
                \/ ~EndsWith(column, "_id")
                \/ referenced = <<>>
                \/ \E f \in 1..Len(fks) :
                       fks[f].column = column /\ fks[f].ref_table = referenced[1]
             THEN RegisterColumns(tbls, t, k + 1, fks)
             ELSE RegisterColumns(tbls, t, k + 1,
                                  Append(fks, ForeignKeySpec(column, referenced[1], column)))

\* NormalizationEngine._register_foreign_keys
RegisterForeignKeys(tbls) ==
    [k \in 1..Len(tbls) |->
        [tbls[k] EXCEPT !.foreign_keys = RegisterColumns(tbls, tbls[k], 1, @)]]

\* ref_table.dataframe[fk.ref_column].dropna().unique()
ValidValues(ref, column) == {ref.df.rows[k][column] : k \in 1..Len(ref.df.rows)} \ {NULL}

\* a filter without the isna() alternative: df[df[fk.column].isin(valid_values)]
FilterByForeignKeyNoNulls(df, column, valid_values) ==
    Frame(df.cols, SelectSeq(df.rows, LAMBDA r : r[column] \in valid_values))

\* df[df[fk.column].isna() | df[fk.column].isin(valid_values)]
FilterByForeignKey(df, column, valid_values) ==
    Frame(df.cols, SelectSeq(df.rows, LAMBDA r : r[column] = NULL \/ r[column] \in valid_values))

\* the loop over table.foreign_keys; err is the KeyError of
\* ref_table.dataframe[fk.ref_column] for a column the referenced frame lacks
RECURSIVE EnforceLoop(_, _, _, _)
EnforceLoop(tbls, fks, k, df) ==
    IF k > Len(fks) THEN [err |-> FALSE, df |-> df]
    ELSE LET fk == fks[k]
             r == IndexOf(tbls, fk.ref_table)
         IN  IF r = 0 THEN EnforceLoop(tbls, fks, k + 1, df)
             ELSE IF ~HasCol(tbls[r].df, fk.ref_column) THEN [err |-> TRUE, df |-> df]
             ELSE EnforceLoop(tbls, fks, k + 1,
                              FilterByForeignKey(df, fk.column,
                                                 ValidValues(tbls[r], fk.ref_column)))

\* one iteration of _enforce_referential_integrity
EnforceTable(tbls, k) == EnforceLoop(tbls, tbls[k].foreign_keys, 1, tbls[k].df)

\* the body of the loop of normalize() for one source table: lines 312-333
NormalizeStep(dims, norm, table, candidate_keys) ==
    LET keyed == EnsurePrimaryKey(table.name, table.df, candidate_keys)
        ex == ExtractDimensionTables(table.name, keyed.df, keyed.primary_key)
        locals == [table_name |-> table.name, primary_key |-> keyed.primary_key, df |-> keyed.df]
    IN  IF ex.err
        THEN [err |-> TRUE, base |-> locals, dimension_tables |-> dims, normalized |-> norm]
        ELSE [err |-> FALSE, base |-> locals,
              dimension_tables |-> MergeDimensions(dims, ex.dimensions),
              normalized |-> DictPut(norm, NormalizedTable(table.name, ex.df, keyed.primary_key,
                                                           <<>>, <<table.name>>))]

RECURSIVE NormalizeLoop(_, _, _, _)
NormalizeLoop(tbls, k, dims, norm) ==
    IF k > Len(tbls) THEN [err |-> FALSE, dimension_tables |-> dims, normalized |-> norm]
    ELSE LET st == NormalizeStep(dims, norm, tbls[k], FindCandidateKeys(tbls[k].df))
         IN  IF st.err THEN [err |-> TRUE, dimension_tables |-> dims, normalized |-> norm]
             ELSE NormalizeLoop(tbls, k + 1, st.dimension_tables, st.normalized)

RECURSIVE EnforceAll(_, _)
EnforceAll(tbls, k) ==
    IF k > Len(tbls) THEN [err |-> FALSE, tables |-> tbls]
    ELSE LET res == EnforceTable(tbls, k)
         IN  IF res.err THEN [err |-> TRUE, tables |-> tbls]
             ELSE EnforceAll([tbls EXCEPT ![k].df = res.df], k + 1)

\* Profile + Normalize of a fresh engine over the tables tbls, as one function:
\* err when normalize() raises, else the mapping it returns
Normalize(tbls) ==
    LET loop == NormalizeLoop(tbls, 1, <<>>, <<>>)
    IN  IF loop.err THEN [err |-> TRUE, tables |-> <<>>]
        ELSE EnforceAll(RegisterForeignKeys(DictMerge(loop.dimension_tables, loop.normalized)), 1)

(***************************************************************************)
(* The explored inputs.                                                    *)
(***************************************************************************)
File(stem, header, rows) ==
    [stem |-> stem, header |-> header, rows |-> rows, exists |-> TRUE, fault |-> "none"]

\* a candidate that is missing or that fails to load
FaultyFile(stem, header, rows, exists, fault) ==
    [stem |-> stem, header |-> header, rows |-> rows, exists |-> exists, fault |-> fault]

Cells == {NULL, IntVal(1), IntVal(2)}

\* raw header names; they standardize to id, a_id, p_id, p_a_id, p_name
RawNames == {"ID", "A ID", "P-Id", "P/A  ID", "p_name "}
PairNames == {"A ID", "P-Id", "P/A  ID"}

\* the headers of n distinct names
HeaderLists(names, n) ==
    {h \in [1..n -> names] : \A a, b \in 1..n : a # b => h[a] # h[b]}

\* the row lists of r rows of n cells
RowLists(n, r) == [1..r -> [1..n -> Cells]]

\* one file A.csv: up to MaxCols columns and MaxRows rows
SingleFileInput(fs) ==
    \E n \in 1..MaxCols : \E h \in HeaderLists(RawNames, n) :
        \E r \in 0..MaxRows : \E rs \in RowLists(n, r) :
            fs = <<File("A", h, rs)>>

\* one file A.csv without empty cells: more than MaxRows and up to MaxFullRows rows
FullFileInput(fs) ==
    \E n \in 1..MaxCols : \E h \in HeaderLists(RawNames, n) :
        \E r \in (MaxRows + 1)..MaxFullRows : \E rs \in [1..r -> [1..n -> Cells \ {NULL}]] :
            fs = <<File("A", h, rs)>>

\* two files A.csv and B.csv of MaxCols columns and up to MaxPairRows rows
PairInput(fs) ==
    \E ha \in HeaderLists(PairNames, MaxCols) : \E hb \in HeaderLists(PairNames, MaxCols) :
        \E ra \in 0..MaxPairRows : \E rb \in 0..MaxPairRows :
            \E rsa \in RowLists(MaxCols, ra) : \E rsb \in RowLists(MaxCols, rb) :
                fs = <<File("A", ha, rsa), File("B", hb, rsb)>>

\* one file A.csv of two columns and MaxFullRows rows, with empty cells
NullRowsInput(fs) ==
    \E rs \in RowLists(2, MaxFullRows) : fs = <<File("A", <<"A ID", "P-Id">>, rs)>>

\* the characters of the raw names explored: letters of both cases, the
\* separators the canonicalization replaces, and white space
NameAlphabet == {"A", "a", " ", "\t", "-", "/", "_"}

\* the string of the characters w[1], ..., w[Len(w)]
RECURSIVE Join(_)
Join(w) == IF w = <<>> THEN "" ELSE Head(w) \o Join(Tail(w))

\* one file without rows whose stem and whose single header name are the same
\* raw name of up to MaxNameLen characters
NameInput(fs) ==
    \E n \in 1..MaxNameLen : \E w \in [1..n -> NameAlphabet] :
        fs = <<File(Join(w), <<Join(w)>>, <<>>)>>

\* the stems of the files of one directory, in sorted path order; the last two
\* derive the same table name
LoadStems == <<"B", "My Data", "my_data">>

\* the files `stem`.csv with the one column ID and one row; a file may be a
\* listed path that does not exist, or fail to load
LoadFileChoices(stem) ==
    {f \in {FaultyFile(stem, <<"ID">>, << <<v>> >>, exists, fault) :
                v \in {IntVal(1), IntVal(2)}, exists \in BOOLEAN, fault \in Faults} :
        f.exists \/ f.fault = "none"}

\* one or two candidate files of the directory, in sorted path order
LoadInput(fs) ==
    \/ \E a \in 1..Len(LoadStems) : \E f \in LoadFileChoices(LoadStems[a]) : fs = <<f>>
    \/ \E a, b \in 1..Len(LoadStems) :
           /\ a < b
           /\ \E f \in LoadFileChoices(LoadStems[a]) : \E g \in LoadFileChoices(LoadStems[b]) :
                  fs = <<f, g>>

\* the products.csv scenario
ProductsInput ==
    << File("products", <<"ProductID", "ProductName", "CategoryID", "Category Name">>,
            << <<IntVal(1), StrVal("Widget"), IntVal(10), StrVal("Tools")>>,
               <<IntVal(2), StrVal("Gadget"), IntVal(10), StrVal("Tools")>> >>) >>

\* the customers.csv / orders.csv scenario: one order of a customer that does not exist
OrdersInput ==
    << File("customers", <<"customer_id">>, << <<IntVal(1)>>, <<IntVal(2)>> >>),
       File("orders", <<"order_id", "customer_id">>,
            << <<IntVal(1), IntVal(1)>>, <<IntVal(2), IntVal(999)>> >>) >>

\* a table with an attribute group: it yields p_dimension and the fact table a
DimensionInput ==
    << File("A", <<"P-Id", "p_name ">>,
            << <<IntVal(1), IntVal(1)>>, <<IntVal(2), IntVal(2)>> >>) >>

\* a dimension attribute that is the key of another table: b yields p_dimension
\* with the attribute p_a_id, the primary key of a
LeafInput ==
    << File("A", <<"P/A  ID">>, << <<IntVal(1)>> >>),
       File("B", <<"ID", "P-Id", "P/A  ID">>,
            << <<IntVal(1), IntVal(1), IntVal(1)>>, <<IntVal(2), IntVal(2), IntVal(2)>> >>) >>

\* a table that refers to a later table with a two-column key: no column of b is
\* unique, (p_id, b_id) is its key, and a.p_id refers to b
CompositeInput ==
    << File("A", <<"ID", "P-Id">>, << <<IntVal(1), IntVal(1)>>, <<IntVal(2), IntVal(3)>> >>),
       File("B", <<"P-Id", "B ID">>,
            << <<IntVal(1), IntVal(1)>>, <<IntVal(1), IntVal(2)>>, <<IntVal(2), IntVal(1)>> >>) >>

\* a source table that carries the name of a dimension: a.csv yields p_dimension,
\* and the second file derives the table name p_dimension
CollisionInput ==
    << File("A", <<"ID", "P-Id", "p_name ">>, << <<IntVal(1), IntVal(1), IntVal(1)>> >>),
       File("P Dimension", <<"ID">>, << <<IntVal(1)>> >>) >>

\* the inputs of the runs that go on to materialize()
MatInput(fs) ==
    \/ fs \in {ProductsInput, OrdersInput, DimensionInput, CompositeInput, <<>>}
    \/ \E fa \in {"open", "bad_delimiter_twice", "parse"} :
       \E fb \in {"open", "bad_delimiter_twice", "parse"} :
           \/ fs = <<FaultyFile("A", <<"ID">>, <<>>, TRUE, fa)>>
           \/ fs = <<FaultyFile("A", <<"ID">>, <<>>, TRUE, fa),
                     FaultyFile("B", <<"ID">>, <<>>, TRUE, fb)>>

\* the tables of the schema that those runs can create
DbNames == {"products", "customers", "orders", "a", "b", "p_dimension"}

\* a table of the schema: absent, or present with the origins of its rows
Absent == [exists |-> FALSE, rows |-> {}]

Existing == [exists |-> TRUE, rows |-> {"existing"}]

\* the scenarios of the specification, and a source path without CSV files
ScenarioInput(fs) ==
    fs \in {ProductsInput, OrdersInput, LeafInput, CompositeInput, CollisionInput, <<>>}

VARIABLES
    files,             \* the candidate CSV files, in the order load() takes them
    reads,             \* the number of pd.read_csv calls made for each candidate
    pc,                \* where build_normalized_database stands
    tables,            \* Dict[str, CsvTable] returned by load()
    profiles,          \* the candidate keys of each table, by position in tables
    i,                 \* the loop of normalize() over self.tables
    base,              \* primary_key, base_df as _ensure_primary_key last returned them
    dimension_tables,  \* self.dimension_tables
    normalized,        \* the dict normalize() builds
    all_tables,        \* {**self.dimension_tables, **normalized}
    j,                 \* the loop of _enforce_referential_integrity
    error              \* the exception that ended the call, "" when none

VARIABLES
    drop_existing,     \* the argument of build_normalized_database and materialize()
    database,          \* the committed tables of the schema, as every session sees them
    session,           \* the tables as the loader's connection sees them in its transaction
    before,            \* the committed tables when the run started
    status,            \* the transaction status of the loader's connection
    mpc,               \* where materialize() stands
    stmt,              \* the position of the current loop of materialize() in tables
    commits,           \* how many times connection.commit() was called
    log,               \* the statements handed to the cursor, in order
    mat_error          \* what failed in materialize(), "" when nothing did

pipeline == <<files, reads, pc, tables, profiles, i, base, dimension_tables, normalized, all_tables, j, error>>

mat == <<drop_existing, database, session, before, status, mpc, stmt, commits, log, mat_error>>

VARIABLES
    query,             \* the argument of execute_query: the words of query.upper()
    qpc,               \* where execute_query stands
    borrowed,          \* how many connections execute_query took from the pool
    sent,              \* the statements execute_query handed to its cursor, in order
    qerror             \* the exception that ended execute_query, "" when none

dbq == <<query, qpc, borrowed, sent, qerror>>

VARIABLES
    history,           \* the rows of query_history, in insertion (id) order
    hnow,              \* CURRENT_TIMESTAMP of the history store, in whole seconds
    hcall              \* the last call on the QueryHistoryManager and what it returned

hist == <<history, hnow, hcall>>

VARIABLES
    schema_context,    \* whether set_schema_context() was called
    historic,          \* what query_history.lookup(question) gives generate_sql
    requires_ties,     \* _requires_tie_handling(question)
    max_retries,       \* the argument of generate_sql
    attempt,           \* the loop variable of generate_sql
    responses,         \* what each call of model.generate_content gave, in order
    reminder_appended, \* whether the tie reminder was added to the prompt
    gpc,               \* where generate_sql stands
    gresult,           \* the (sql_query, metadata) generate_sql returned
    gerror             \* the exception generate_sql raised, "" when none

gen == <<schema_context, historic, requires_ties, max_retries, attempt, responses,
         reminder_appended, gpc, gresult, gerror>>

VARIABLES
    enabled,           \* QueryCache.enabled
    ttl_seconds,       \* QueryCache.ttl_seconds
    store,             \* InMemoryCache._store: key -> payload
    expirations,       \* InMemoryCache._expirations: key -> expiry time
    cnow,              \* time.time(), in whole seconds
    clog               \* the calls made on the QueryCache and what each returned

cache == <<enabled, ttl_seconds, store, expirations, cnow, clog>>

VARIABLES
    sniff,             \* what open() and csv.Sniffer().sniff(sample) do for the file
    dialect            \* the (delimiter, quotechar) _detect_dialect returned

dia == <<sniff, dialect>>

VARIABLES
    again              \* what a second normalize() call on the same engine returned

rpt == <<again>>

\* the state outside the ingestion pipeline and the loader
ext == <<dbq, hist, gen, cache, dia, rpt>>

vars == <<pipeline, mat, ext>>

NoBase == [table_name |-> "", primary_key |-> <<>>, df |-> Frame(<<>>, <<>>)]

\* build_normalized_database is called: nothing is loaded yet
PipelineStart ==
    /\ pc = "load"
    /\ reads = <<>>
    /\ tables = <<>>
    /\ profiles = <<>>
    /\ i = 1
    /\ base = NoBase
    /\ dimension_tables = <<>>
    /\ normalized = <<>>
    /\ all_tables = <<>>
    /\ j = 1
    /\ error = ""

\* the loader has not touched its connection: no transaction is open
MaterializerStart ==
    /\ session = database
    /\ before = database
    /\ status = "idle"
    /\ mpc = "idle"
    /\ stmt = 1
    /\ commits = 0
    /\ log = <<>>
    /\ mat_error = ""

\* execute_query is not called
QueryStart ==
    /\ query = <<>>
    /\ qpc = "idle"
    /\ borrowed = 0
    /\ sent = <<>>
    /\ qerror = ""

\* a new history store: no row, no call
HistoryStart ==
    /\ history = <<>>
    /\ hnow = 0
    /\ hcall = [op |-> "none"]

\* generate_sql returned nothing
NoResult == [sql |-> <<>>, attempts |-> -1, source |-> "none"]

\* generate_sql is not called
GenerateStart ==
    /\ schema_context = FALSE
    /\ historic = <<>>
    /\ requires_ties = FALSE
    /\ max_retries = 0
    /\ attempt = 0
    /\ responses = <<>>
    /\ reminder_appended = FALSE
    /\ gpc = "idle"
    /\ gresult = NoResult
    /\ gerror = ""

\* a disabled QueryCache: no backend, no call
CacheStart ==
    /\ enabled = FALSE
    /\ ttl_seconds = 0
    /\ store = <<>>
    /\ expirations = <<>>
    /\ cnow = 1
    /\ clog = <<>>

\* _detect_dialect has returned nothing
NoDialect == <<>>

\* _detect_dialect is not called
DialectStart ==
    /\ sniff = [raises |-> "none", delimiter |-> ",", quotechar |-> "\""]
    /\ dialect = NoDialect

\* normalize() was not called a second time
RepeatStart == again = <<>>

\* nothing outside the pipeline and the loader is in use
ExtStart == QueryStart /\ HistoryStart /\ GenerateStart /\ CacheStart /\ DialectStart /\ RepeatStart

\* ingestion, profiling and normalize() over the input families
Init ==
    /\ \/ SingleFileInput(files)
       \/ FullFileInput(files)
       \/ NullRowsInput(files)
       \/ PairInput(files)
       \/ ScenarioInput(files)
       \/ NameInput(files)
       \/ LoadInput(files)
    /\ PipelineStart
    /\ drop_existing = FALSE
    /\ database = [t \in DbNames |-> Absent]
    /\ MaterializerStart
    /\ ExtStart

\* ingestion.load() and the check for an empty result (build_normalized_database)
Load ==
    /\ pc = "load"
    /\ IF ResolveRaises(files)
       THEN /\ pc' = "raised"
            /\ error' = "FileNotFoundError"
            /\ UNCHANGED <<tables, reads>>
       ELSE /\ tables' = LoadFiles(files, <<>>)
            /\ reads' = [k \in 1..Len(files) |-> ReadCalls(files[k])]
            /\ IF EmptyCheck(tables')
               THEN pc' = "raised" /\ error' = "ValueError"
               ELSE pc' = "profile" /\ error' = error
    /\ UNCHANGED <<files, profiles, i, base, dimension_tables, normalized, all_tables, j>>
    /\ UNCHANGED <<mat, ext>>

\* profiler.profile(tables)
Profile ==
    /\ pc = "profile"
    /\ profiles' = [k \in 1..Len(tables) |-> FindCandidateKeys(tables[k].df)]
    /\ pc' = "normalize"
    /\ UNCHANGED <<files, reads, tables, i, base, dimension_tables, normalized, all_tables, j, error>>
    /\ UNCHANGED <<mat, ext>>

\* one iteration of the loop of normalize() over the source tables
NormalizeTable ==
    /\ pc = "normalize"
    /\ i <= Len(tables)
    /\ LET st == NormalizeStep(dimension_tables, normalized, tables[i], profiles[i])
       IN  /\ base' = st.base
           /\ dimension_tables' = st.dimension_tables
           /\ normalized' = st.normalized
           /\ IF st.err
              THEN pc' = "raised" /\ error' = "KeyError" /\ i' = i
              ELSE pc' = pc /\ error' = error /\ i' = i + 1
    /\ UNCHANGED <<files, reads, tables, profiles, all_tables, j>>
    /\ UNCHANGED <<mat, ext>>

\* the tables registered in self.dimension_tables are the objects all_tables holds,
\* unless a source table of the same name replaced the entry
SharedDimensions(dims, tbls) ==
    [k \in 1..Len(dims) |->
        IF IndexOf(normalized, dims[k].name) = 0 /\ IndexOf(tbls, dims[k].name) # 0
        THEN tbls[IndexOf(tbls, dims[k].name)]
        ELSE dims[k]]

\* all_tables = {**self.dimension_tables, **normalized}; _register_foreign_keys
RegisterKeys ==
    /\ pc = "normalize"
    /\ i > Len(tables)
    /\ all_tables' = RegisterForeignKeys(DictMerge(dimension_tables, normalized))
    /\ dimension_tables' = SharedDimensions(dimension_tables, all_tables')
    /\ pc' = "enforce"
    /\ j' = 1
    /\ UNCHANGED <<files, reads, tables, profiles, i, base, normalized, error>>
    /\ UNCHANGED <<mat, ext>>

\* one iteration of _enforce_referential_integrity; normalize() returns after the last
Enforce ==
    /\ pc = "enforce"
    /\ j <= Len(all_tables)
    /\ LET res == EnforceTable(all_tables, j)
       IN  IF res.err
           THEN /\ pc' = "raised"
                /\ error' = "KeyError"
                /\ UNCHANGED <<all_tables, dimension_tables, j>>
           ELSE /\ all_tables' = [all_tables EXCEPT ![j].df = res.df]
                /\ dimension_tables' = SharedDimensions(dimension_tables, all_tables')
                /\ j' = j + 1
                /\ pc' = IF j = Len(all_tables) THEN "done" ELSE "enforce"
                /\ error' = error
    /\ UNCHANGED <<files, reads, tables, profiles, i, base, normalized>>
    /\ UNCHANGED <<mat, ext>>

Next == Load \/ Profile \/ NormalizeTable \/ RegisterKeys \/ Enforce

Spec == Init /\ [][Next]_vars

(***************************************************************************)
(* Materialization: PostgresLoader.materialize over the connection that    *)
(* DatabaseManager.get_connection lends.  A statement that the database    *)
(* rejects raises out of both `with` blocks; which statements are rejected *)
(* is the database's choice.                                               *)
(***************************************************************************)
\* the names of the dict `tables`, in iteration order
TableNames == [k \in 1..Len(all_tables) |-> all_tables[k].name]

\* an error path that still reaches connection.commit()
AfterErrorCommits == "commit"

\* where an exception raised by the cursor takes materialize(): past
\* connection.commit(), into the finally clause of get_connection
AfterError == "release"

\* where materialize() goes once the loop at stage `stage` is done with its last table
AfterLoop(stage) ==
    CASE stage = "drop" -> "create"
      [] stage = "create" -> "copy"
      [] stage = "copy" -> "commit"

\* the first loop that has a table to work on
RECURSIVE FirstStage(_)
FirstStage(stage) ==
    IF stage = "commit" \/ Len(all_tables) > 0 THEN stage ELSE FirstStage(AfterLoop(stage))

\* the effect of a statement on the table it names
Effect(kind, t) ==
    CASE kind = "DROP" -> Absent
      [] kind = "CREATE" -> IF t.exists THEN t ELSE [exists |-> TRUE, rows |-> {}]
      [] kind = "COPY" -> [t EXCEPT !.rows = @ \cup {"loaded"}]

\* cursor.execute / cursor.copy_expert of one statement of the loop `stage`
Execute(stage, kind) ==
    /\ mpc = stage
    /\ log' = Append(log, <<kind, TableNames[stmt]>>)
    /\ \E ok \in BOOLEAN :
        IF ok
        THEN /\ session' = [session EXCEPT ![TableNames[stmt]] = Effect(kind, @)]
             /\ status' = "intrans"
             /\ mat_error' = mat_error
             /\ IF stmt < Len(all_tables)
                THEN mpc' = mpc /\ stmt' = stmt + 1
                ELSE mpc' = AfterLoop(stage) /\ stmt' = 1
        ELSE /\ status' = "inerror"
             /\ mat_error' = kind
             /\ mpc' = AfterError
             /\ UNCHANGED <<session, stmt>>
    /\ UNCHANGED <<drop_existing, database, before, commits>>
    /\ UNCHANGED <<pipeline, ext>>

\* normalize() has returned; get_connection: initialize_pool and getconn
GetConnection ==
    /\ pc = "done"
    /\ mpc = "idle"
    /\ \E ok \in BOOLEAN :
        IF ok
        THEN /\ mpc' = FirstStage(IF drop_existing THEN "drop" ELSE "create")
             /\ mat_error' = mat_error
        ELSE /\ mpc' = "raised"
             /\ mat_error' = "CONNECT"
    /\ UNCHANGED <<drop_existing, database, session, before, status, stmt, commits, log>>
    /\ UNCHANGED <<pipeline, ext>>

\* DROP TABLE IF EXISTS ... CASCADE
Drop == Execute("drop", "DROP")

\* CREATE TABLE IF NOT EXISTS ...
Create == Execute("create", "CREATE")

\* _copy_table: COPY ... FROM STDIN
Copy == Execute("copy", "COPY")

\* connection.commit(): the transaction ends; a transaction that a failed
\* statement aborted, or a commit the database refuses, ends rolled back
Commit ==
    /\ mpc = "commit"
    /\ commits' = commits + 1
    /\ status' = "idle"
    /\ mpc' = "release"
    /\ \E ok \in BOOLEAN :
        IF ok /\ status # "inerror"
        THEN /\ database' = session
             /\ session' = session
             /\ mat_error' = mat_error
        ELSE /\ database' = database
             /\ session' = database
             /\ mat_error' = IF mat_error = "" THEN "COMMIT" ELSE mat_error
    /\ UNCHANGED <<drop_existing, before, stmt, log>>
    /\ UNCHANGED <<pipeline, ext>>

\* the finally clause of get_connection: the pool takes the connection back
\* and rolls back a transaction that is still open; then materialize()
\* returns, or the exception reaches the caller
PutConnection ==
    /\ mpc = "release"
    /\ session' = IF status = "idle" THEN session ELSE database
    /\ status' = "idle"
    /\ mpc' = IF mat_error = "" THEN "returned" ELSE "raised"
    /\ UNCHANGED <<drop_existing, database, before, stmt, commits, log, mat_error>>
    /\ UNCHANGED <<pipeline, ext>>

\* build_normalized_database over the scenario inputs, any drop_existing, and
\* any subset of the tables already in the schema
InitMat ==
    /\ MatInput(files)
    /\ PipelineStart
    /\ drop_existing \in BOOLEAN
    /\ database \in [DbNames -> {Absent, Existing}]
    /\ MaterializerStart
    /\ ExtStart

NextMat ==
    \/ Load \/ Profile \/ NormalizeTable \/ RegisterKeys \/ Enforce
    \/ GetConnection \/ Drop \/ Create \/ Copy \/ Commit \/ PutConnection

SpecMat == InitMat /\ [][NextMat]_vars

\* no pipeline run: the state of the pipeline and of the loader stays as constructed
PipelineQuiet ==
    /\ files = <<>>
    /\ PipelineStart
    /\ drop_existing = FALSE
    /\ database = [t \in DbNames |-> Absent]
    /\ MaterializerStart

(***************************************************************************)
(* Query execution: DatabaseManager.execute_query behind                   *)
(* QueryValidator.validate.  A query is the sequence of the words of       *)
(* query.upper().strip(), a semicolon being a word of its own.             *)
(***************************************************************************)
BLOCKED_KEYWORDS ==
    {"INSERT", "UPDATE", "DELETE", "DROP", "CREATE", "ALTER",
     "TRUNCATE", "GRANT", "REVOKE", "EXEC", "EXECUTE",
     "MERGE", "REPLACE", "CALL", "DO", "HANDLER",
     "LOAD", "PREPARE", "DEALLOCATE", "BEGIN", "COMMIT",
     "ROLLBACK", "SAVEPOINT", "SET", "RESET", "SHOW",
     "COPY", "ANALYZE", "VACUUM", "CLUSTER", "LOCK",
     "LISTEN", "NOTIFY", "UNLISTEN"}

BLOCKED_SCHEMAS == {"PG_CATALOG", "PG_TOAST", "PG_TEMP", "PG_INTERNAL", "CATALOG", "SYS"}

\* the words that match one of the injection patterns on their own
InjectionWords == {"1=1", "1=0"}

\* query without its trailing semicolons: rstrip(';')
RECURSIVE RStripSemicolons(_)
RStripSemicolons(q) ==
    IF q # <<>> /\ q[Len(q)] = ";" THEN RStripSemicolons(SubSeq(q, 1, Len(q) - 1)) ELSE q

\* QueryValidator.validate: (is_valid, error_message)
Validate(q) ==
    IF q = <<>>
        THEN [ok |-> FALSE, reason |-> "Empty query provided"]
    ELSE IF \E k \in 1..Len(q) : q[k] \in BLOCKED_KEYWORDS
        THEN [ok |-> FALSE, reason |-> "Operation not allowed"]
    ELSE IF ~StartsWith(q[1], "SELECT") /\ ~StartsWith(q[1], "WITH")
        THEN [ok |-> FALSE, reason |-> "Only SELECT queries are allowed"]
    ELSE IF \E k \in 1..Len(q) : \E b \in BLOCKED_SCHEMAS : Contains(q[k], b)
        THEN [ok |-> FALSE, reason |-> "Access to system schema not allowed"]
    ELSE IF \E k \in 1..Len(q) : q[k] \in InjectionWords
        THEN [ok |-> FALSE, reason |-> "Potentially malicious query detected"]
    ELSE IF \E k \in 1..Len(RStripSemicolons(q)) : q[k] = ";"
        THEN [ok |-> FALSE, reason |-> "Multiple statements not allowed"]
    ELSE [ok |-> TRUE, reason |-> ""]

\* QueryValidator.sanitize: one statement that ends with one semicolon
Sanitize(q) == Append(RStripSemicolons(q), ";")

\* a gate that lets every query through
IsRejectedNever(q) == FALSE

\* execute_query: `if not is_valid`
IsRejected(q) == ~Validate(q).ok

\* the words of the explored queries
QueryWords == {"SELECT", "FROM", "PRODUCTS", "INSERT", "UPDATE", "DELETE", ";", "PG_CATALOG"}

\* execute_query(query) is called
QueryInput(q) == \E n \in 0..MaxQueryLen : q \in [1..n -> QueryWords]

\* validate(query) and the check of its verdict
ExecuteValidate ==
    /\ qpc = "call"
    /\ IF IsRejected(query)
       THEN qpc' = "raised" /\ qerror' = "ValueError: Invalid query"
       ELSE qpc' = "connect" /\ qerror' = qerror
    /\ UNCHANGED <<query, borrowed, sent>>
    /\ UNCHANGED <<pipeline, mat, hist, gen, cache, dia, rpt>>

\* get_connection(): getconn from the pool, which may fail
ExecuteBorrow ==
    /\ qpc = "connect"
    /\ \E ok \in BOOLEAN :
        IF ok
        THEN borrowed' = borrowed + 1 /\ qpc' = "timeout" /\ qerror' = qerror
        ELSE borrowed' = borrowed /\ qpc' = "raised" /\ qerror' = "PoolError"
    /\ UNCHANGED <<query, sent>>
    /\ UNCHANGED <<pipeline, mat, hist, gen, cache, dia, rpt>>

\* cursor.execute("SET statement_timeout = ...")
ExecuteSetTimeout ==
    /\ qpc = "timeout"
    /\ sent' = Append(sent, <<"SET", "STATEMENT_TIMEOUT">>)
    /\ \E ok \in BOOLEAN :
        IF ok
        THEN qpc' = "execute" /\ qerror' = qerror
        ELSE qpc' = "release" /\ qerror' = "Error"
    /\ UNCHANGED <<query, borrowed>>
    /\ UNCHANGED <<pipeline, mat, hist, gen, cache, dia, rpt>>

\* cursor.execute(query, params) of the sanitized query, and fetchmany
ExecuteRun ==
    /\ qpc = "execute"
    /\ sent' = Append(sent, Sanitize(query))
    /\ \E outcome \in {"", "TimeoutException", "Error"} :
        qerror' = outcome
    /\ qpc' = "release"
    /\ UNCHANGED <<query, borrowed>>
    /\ UNCHANGED <<pipeline, mat, hist, gen, cache, dia, rpt>>

\* the finally clause of get_connection; execute_query returns or raises
ExecuteRelease ==
    /\ qpc = "release"
    /\ qpc' = IF qerror = "" THEN "returned" ELSE "raised"
    /\ UNCHANGED <<query, borrowed, sent, qerror>>
    /\ UNCHANGED <<pipeline, mat, hist, gen, cache, dia, rpt>>

InitQuery ==
    /\ PipelineQuiet
    /\ QueryInput(query)
    /\ qpc = "call"
    /\ borrowed = 0
    /\ sent = <<>>
    /\ qerror = ""
    /\ HistoryStart
    /\ GenerateStart
    /\ CacheStart
    /\ DialectStart
    /\ RepeatStart

NextQuery ==
    ExecuteValidate \/ ExecuteBorrow \/ ExecuteSetTimeout \/ ExecuteRun \/ ExecuteRelease

SpecQuery == InitQuery /\ [][NextQuery]_vars

(***************************************************************************)
(* Query history: QueryHistoryManager.record and lookup over the           *)
(* query_history table.  created_at is CURRENT_TIMESTAMP, whole seconds.   *)
(***************************************************************************)
\* sql_query IS NULL
NoSql == "NULL"

\* the row of fetchone() when the SELECT has no row
None == "None"

Questions == {"q", " q", "r"}

SqlQueries == {"SELECT 1", "SELECT 2", NoSql}

\* the rows the WHERE clause of lookup keeps
Matching(rows, question) ==
    {k \in 1..Len(rows) :
        /\ rows[k].question = Strip(question, Whitespace)
        /\ rows[k].success = 1
        /\ rows[k].sql_query # NoSql}

\* ORDER BY created_at DESC LIMIT 1: a row no other matching row is newer than;
\* the order among rows of one created_at is the database's choice
FirstByCreatedAtDesc(rows, question) ==
    {k \in Matching(rows, question) :
        \A o \in Matching(rows, question) : rows[o].created_at <= rows[k].created_at}

\* record(question, sql_query, success, ...): INSERT and commit
Record ==
    /\ Len(history) < MaxHistory
    /\ \E question \in Questions, sql_query \in SqlQueries, success \in BOOLEAN :
        /\ history' = Append(history,
               [question   |-> Strip(question, Whitespace),
                sql_query  |-> sql_query,
                success    |-> IF success THEN 1 ELSE 0,
                created_at |-> hnow])
        /\ hcall' = [op |-> "record"]
    /\ hnow' = hnow
    /\ UNCHANGED <<pipeline, mat, dbq, gen, cache, dia, rpt>>

\* a second of the clock passes
Tick ==
    /\ hnow < MaxClock
    /\ hnow' = hnow + 1
    /\ UNCHANGED <<history, hcall>>
    /\ UNCHANGED <<pipeline, mat, dbq, gen, cache, dia, rpt>>

\* lookup(question): the SELECT and fetchone()
Lookup ==
    /\ \E question \in Questions :
        IF FirstByCreatedAtDesc(history, question) = {}
        THEN hcall' = [op |-> "lookup", question |-> question, result |-> None]
        ELSE \E k \in FirstByCreatedAtDesc(history, question) :
                 hcall' = [op |-> "lookup", question |-> question,
                           result |-> history[k].sql_query]
    /\ UNCHANGED <<history, hnow>>
    /\ UNCHANGED <<pipeline, mat, dbq, gen, cache, dia, rpt>>

InitHistory ==
    /\ PipelineQuiet
    /\ QueryStart
    /\ HistoryStart
    /\ GenerateStart
    /\ CacheStart
    /\ DialectStart
    /\ RepeatStart

NextHistory == Record \/ Tick \/ Lookup

SpecHistory == InitHistory /\ [][NextHistory]_vars

(***************************************************************************)
(* SQL generation: Text2SQLEngine.generate_sql.  A response of the model   *)
(* is the query _extract_sql_from_response takes from it, as a sequence of *)
(* words, or Failure when generate_content or response.text raises.        *)
(***************************************************************************)
Failure == <<"Exception">>

\* _supports_ties: WITH TIES, or a filter = (SELECT MAX( / MIN(
SupportsTies(q) ==
    \/ \E k \in 1..(Len(q) - 1) : q[k] = "WITH" /\ q[k + 1] = "TIES"
    \/ \E k \in 1..(Len(q) - 3) :
           q[k] = "=" /\ q[k + 1] = "(" /\ q[k + 2] = "SELECT" /\ q[k + 3] \in {"MAX(", "MIN("}

\* no patch: _apply_ties_patch returns None
NoPatch == <<>>

\* _apply_ties_patch: a trailing LIMIT 1, with or without a semicolon, becomes
\* FETCH FIRST 1 ROWS WITH TIES;
ApplyTiesPatch(q) ==
    LET body == IF q # <<>> /\ q[Len(q)] = ";" THEN SubSeq(q, 1, Len(q) - 1) ELSE q
        n    == Len(body)
    IN  IF n >= 3 /\ body[n - 1] = "LIMIT" /\ body[n] = "1"
        THEN SubSeq(body, 1, n - 2) \o <<"FETCH", "FIRST", "1", "ROWS", "WITH", "TIES", ";">>
        ELSE NoPatch

\* a check that accepts every response
IsValidAlways(q) == TRUE

\* generate_sql: is_valid of query_validator.validate(sql_query)
IsValid(q) == Validate(q).ok

\* the responses explored
Responses ==
    {<<"SELECT", "A">>,
     <<"INSERT", "INTO", "T">>,
     <<>>,
     <<"SELECT", "A", "LIMIT", "1">>,
     <<"SELECT", "A", "LIMIT", "1", ";">>,
     <<"SELECT", "A", ";", "LIMIT", "1">>,
     <<"SELECT", "A", "FETCH", "FIRST", "1", "ROWS", "WITH", "TIES">>,
     <<"SELECT", "A", "WHERE", "B", "=", "(", "SELECT", "MAX(">>,
     Failure}

\* the entries lookup may give: none, or a stored sql_query
Historic == {<<>>, <<"SELECT", "A">>, <<"SELECT", "A", "LIMIT", "1">>}

\* the head of generate_sql: the schema check and the reuse of history
GenerateBegin ==
    /\ gpc = "call"
    /\ IF ~schema_context
       THEN /\ gpc' = "raised"
            /\ gerror' = "ValueError"
            /\ gresult' = gresult
       ELSE IF historic # <<>> /\ ~(requires_ties /\ ~SupportsTies(historic))
       THEN /\ gpc' = "returned"
            /\ gresult' = [sql |-> historic, attempts |-> 0, source |-> "history"]
            /\ gerror' = gerror
       ELSE /\ gpc' = "loop"
            /\ gresult' = gresult
            /\ gerror' = gerror
    /\ UNCHANGED <<schema_context, historic, requires_ties, max_retries, attempt,
                   responses, reminder_appended>>
    /\ UNCHANGED <<pipeline, mat, dbq, hist, cache, dia, rpt>>

\* one iteration of the loop: the model call, the extraction, the validation and
\* the handler of the exceptions of the iteration
GenerateAttempt ==
    /\ gpc = "loop"
    /\ attempt < max_retries + 1
    /\ \E response \in Responses :
        /\ responses' = Append(responses, response)
        /\ IF response = Failure
           THEN \* except Exception
                /\ IF attempt = max_retries
                   THEN gpc' = "raised" /\ gerror' = "ValueError" /\ attempt' = attempt
                   ELSE gpc' = gpc /\ gerror' = gerror /\ attempt' = attempt + 1
                /\ UNCHANGED <<gresult, reminder_appended>>
           ELSE IF ~IsValid(response)
           THEN /\ IF attempt < max_retries
                   THEN gpc' = gpc /\ gerror' = gerror /\ attempt' = attempt + 1
                   ELSE gpc' = "raised" /\ gerror' = "ValueError" /\ attempt' = attempt
                /\ UNCHANGED <<gresult, reminder_appended>>
           ELSE IF requires_ties /\ ~SupportsTies(response)
           THEN LET patched_sql == ApplyTiesPatch(response)
                IN  IF patched_sql # NoPatch /\ SupportsTies(patched_sql)
                    THEN /\ gpc' = "returned"
                         /\ gresult' = [sql |-> patched_sql, attempts |-> attempt + 1,
                                        source |-> "model"]
                         /\ UNCHANGED <<gerror, attempt, reminder_appended>>
                    ELSE IF attempt < max_retries
                    THEN /\ reminder_appended' = TRUE
                         /\ attempt' = attempt + 1
                         /\ UNCHANGED <<gpc, gerror, gresult>>
                    ELSE /\ gpc' = "raised"
                         /\ gerror' = "ValueError"
                         /\ UNCHANGED <<gresult, attempt, reminder_appended>>
           ELSE /\ gpc' = "returned"
                /\ gresult' = [sql |-> response, attempts |-> attempt + 1, source |-> "model"]
                /\ UNCHANGED <<gerror, attempt, reminder_appended>>
    /\ UNCHANGED <<schema_context, historic, requires_ties, max_retries>>
    /\ UNCHANGED <<pipeline, mat, dbq, hist, cache, dia, rpt>>

\* the loop ran out: raise ValueError("Failed to generate SQL query")
GenerateExhausted ==
    /\ gpc = "loop"
    /\ attempt >= max_retries + 1
    /\ gpc' = "raised"
    /\ gerror' = "ValueError"
    /\ UNCHANGED <<schema_context, historic, requires_ties, max_retries, attempt,
                   responses, reminder_appended, gresult>>
    /\ UNCHANGED <<pipeline, mat, dbq, hist, cache, dia, rpt>>

InitGenerate ==
    /\ PipelineQuiet
    /\ QueryStart
    /\ HistoryStart
    /\ schema_context \in BOOLEAN
    /\ historic \in Historic
    /\ requires_ties \in BOOLEAN
    /\ max_retries \in -1..MaxRetries
    /\ attempt = 0
    /\ responses = <<>>
    /\ reminder_appended = FALSE
    /\ gpc = "call"
    /\ gresult = NoResult
    /\ gerror = ""
    /\ CacheStart
    /\ DialectStart
    /\ RepeatStart

NextGenerate == GenerateBegin \/ GenerateAttempt \/ GenerateExhausted

SpecGenerate == InitGenerate /\ [][NextGenerate]_vars

(***************************************************************************)
(* The query cache: QueryCache on the InMemoryCache backend.  A dict is a  *)
(* function on the set of its keys.                                        *)
(***************************************************************************)
\* _normalize_key: the prefix and the digest of sql.strip(); the digest is taken
\* as one-to-one
NormalizeKey(sql) == "text2sql:query:" \o Strip(sql, Whitespace)

\* d[k] = v
Put(d, k, v) == [x \in DOMAIN d \cup {k} |-> IF x = k THEN v ELSE d[x]]

\* d.pop(k, None)
Pop(d, k) == [x \in DOMAIN d \ {k} |-> d[x]]

\* an entry that is expired one second early
ExpiredEarly(k) == k \in DOMAIN expirations /\ expirations[k] <= cnow

\* InMemoryCache.get: `expiry and expiry < time.time()`
Expired(k) ==
    k \in DOMAIN expirations /\ expirations[k] # 0 /\ expirations[k] < cnow

Payloads == {"p1", "p2"}

\* one entry of the log of calls
Call(op, sql, value) == [op |-> op, sql |-> sql, value |-> value, at |-> cnow]

\* QueryCache.set(sql, payload)
CacheSet ==
    /\ Len(clog) < MaxCacheCalls
    /\ \E sql \in Questions, payload \in Payloads :
        /\ clog' = Append(clog, Call("set", sql, payload))
        /\ IF ~enabled
           THEN UNCHANGED <<store, expirations>>
           ELSE /\ store' = Put(store, NormalizeKey(sql), payload)
                /\ expirations' = Put(expirations, NormalizeKey(sql), cnow + ttl_seconds)
    /\ UNCHANGED <<enabled, ttl_seconds, cnow>>
    /\ UNCHANGED <<pipeline, mat, dbq, hist, gen, dia, rpt>>

\* QueryCache.get(sql)
CacheGet ==
    /\ Len(clog) < MaxCacheCalls
    /\ \E sql \in Questions :
        LET key == NormalizeKey(sql)
        IN  IF ~enabled
            THEN /\ clog' = Append(clog, Call("get", sql, None))
                 /\ UNCHANGED <<store, expirations>>
            ELSE IF Expired(key)
            THEN /\ store' = Pop(store, key)
                 /\ expirations' = Pop(expirations, key)
                 /\ clog' = Append(clog, Call("get", sql, None))
            ELSE /\ clog' = Append(clog, Call("get", sql,
                                IF key \in DOMAIN store THEN store[key] ELSE None))
                 /\ UNCHANGED <<store, expirations>>
    /\ UNCHANGED <<enabled, ttl_seconds, cnow>>
    /\ UNCHANGED <<pipeline, mat, dbq, hist, gen, dia, rpt>>

\* QueryCache.clear(): a new InMemoryCache
CacheClear ==
    /\ Len(clog) < MaxCacheCalls
    /\ clog' = Append(clog, Call("clear", "", None))
    /\ IF ~enabled
       THEN UNCHANGED <<store, expirations>>
       ELSE store' = <<>> /\ expirations' = <<>>
    /\ UNCHANGED <<enabled, ttl_seconds, cnow>>
    /\ UNCHANGED <<pipeline, mat, dbq, hist, gen, dia, rpt>>

\* a second of time.time() passes
CacheTick ==
    /\ cnow < MaxClock + 1
    /\ cnow' = cnow + 1
    /\ UNCHANGED <<enabled, ttl_seconds, store, expirations, clog>>
    /\ UNCHANGED <<pipeline, mat, dbq, hist, gen, dia, rpt>>

\* QueryCache(enabled, url="", ttl_seconds)
InitCache ==
    /\ PipelineQuiet
    /\ QueryStart
    /\ HistoryStart
    /\ GenerateStart
    /\ enabled \in BOOLEAN
    /\ ttl_seconds \in 0..MaxTtl
    /\ store = <<>>
    /\ expirations = <<>>
    /\ cnow = 1
    /\ clog = <<>>
    /\ DialectStart
    /\ RepeatStart

NextCache == CacheSet \/ CacheGet \/ CacheClear \/ CacheTick

SpecCache == InitCache /\ [][NextCache]_vars

(***************************************************************************)
(* Dialect detection: CsvIngestionEngine._detect_dialect.  What open() and *)
(* the sniffer give is the input: an exception, or a dialect object whose  *)
(* delimiter and quotechar are strings, "" standing for None as well.      *)
(***************************************************************************)
DefaultDialect == <<",", "\"">>

\* a detection that gives up on an invalid quote character as on an invalid delimiter
DetectDialectStrict(s) ==
    IF s.raises # "none" \/ Len(s.delimiter) # 1 \/ Len(s.quotechar) # 1
    THEN DefaultDialect
    ELSE <<s.delimiter, s.quotechar>>

\* _detect_dialect
DetectDialect(s) ==
    IF s.raises # "none" THEN DefaultDialect
    ELSE IF Len(s.delimiter) # 1 THEN DefaultDialect
    ELSE IF Len(s.quotechar) # 1 THEN <<s.delimiter, "\"">>
    ELSE <<s.delimiter, s.quotechar>>

\* the outcomes explored: open() or sniff() raising, and sniffed dialects
SniffOutcomes(s) ==
    \E raises \in {"none", "open", "sniff"} :
    \E delimiter \in {"", ",", ";", "\t", "|", "||"} :
    \E quotechar \in {"", "\"", "'", "|", "''"} :
        s = [raises |-> raises, delimiter |-> delimiter, quotechar |-> quotechar]

\* the call of _detect_dialect from _load_file
Detect ==
    /\ dialect = NoDialect
    /\ dialect' = DetectDialect(sniff)
    /\ sniff' = sniff
    /\ UNCHANGED <<pipeline, mat, dbq, hist, gen, cache, rpt>>

InitDialect ==
    /\ PipelineQuiet
    /\ QueryStart
    /\ HistoryStart
    /\ GenerateStart
    /\ CacheStart
    /\ SniffOutcomes(sniff)
    /\ dialect = NoDialect
    /\ RepeatStart

NextDialect == Detect

SpecDialect == InitDialect /\ [][NextDialect]_vars

(***************************************************************************)
(* A second normalize() call on the engine of the first: the engine keeps  *)
(* self.dimension_tables, and the mapping the first call returned holds    *)
(* the same NormalizedTable objects.                                       *)
(***************************************************************************)
\* the mapping a caller holds, as it reads after the engine changed its dimensions
Aliased(held, dims) ==
    [k \in 1..Len(held) |->
        IF IndexOf(normalized, held[k].name) = 0 /\ IndexOf(dims, held[k].name) # 0
        THEN dims[IndexOf(dims, held[k].name)]
        ELSE held[k]]

\* normalize(), called again after it returned
NormalizeAgain ==
    /\ pc = "done"
    /\ LET loop == NormalizeLoop(tables, 1, dimension_tables, <<>>)
           res == EnforceAll(RegisterForeignKeys(
                                 DictMerge(loop.dimension_tables, loop.normalized)), 1)
       IN  IF loop.err \/ res.err
           THEN /\ pc' = "raised"
                /\ error' = "KeyError"
                /\ UNCHANGED <<again, dimension_tables, all_tables>>
           ELSE /\ pc' = "again"
                /\ error' = error
                /\ again' = res.tables
                /\ dimension_tables' = SharedDimensions(loop.dimension_tables, res.tables)
                /\ all_tables' = Aliased(all_tables, dimension_tables')
    /\ UNCHANGED <<files, reads, tables, profiles, i, base, normalized, j>>
    /\ UNCHANGED <<mat, dbq, hist, gen, cache, dia>>

NextRepeat == Next \/ NormalizeAgain

SpecRepeat == Init /\ [][NextRepeat]_vars

(***************************************************************************)
(* The claims.                                                             *)
(***************************************************************************)
SourceNames == {tables[k].name : k \in 1..Len(tables)}

\* the tables normalize() returned: the fact tables carry a source table's name
IsFact(t) == t.name \in SourceNames

Returned == pc = "done"

RowSet(df) == Range(df.rows)

KeyColumnsPresent(t) == \A c \in Range(t.primary_key) : HasCol(t.df, c)

PrimaryKeyUniqueNonNull(t) ==
    /\ \A c \in Range(t.primary_key) : \A k \in 1..Len(t.df.rows) : t.df.rows[k][c] # NULL
    /\ \A a, b \in 1..Len(t.df.rows) :
           a # b => \E c \in Range(t.primary_key) : t.df.rows[a][c] # t.df.rows[b][c]

\* C1: after Normalize() returns, in every returned table, fact or dimension, no
\* primary-key column holds a null and no two rows agree on all primary-key
\* columns.  (A table whose key column is missing from its rows is C3's case and
\* is not counted here.)
C1_PrimaryKeysUniqueNonNull ==
    Returned =>
        \A k \in 1..Len(all_tables) :
            KeyColumnsPresent(all_tables[k]) => PrimaryKeyUniqueNonNull(all_tables[k])

ForeignKeySatisfied(tbls, t, fk) ==
    \A k \in 1..Len(t.df.rows) :
        t.df.rows[k][fk.column] # NULL =>
            /\ IndexOf(tbls, fk.ref_table) # 0
            /\ \E r \in RowSet(tbls[IndexOf(tbls, fk.ref_table)].df) :
                   r[fk.ref_column] = t.df.rows[k][fk.column]

\* C2: after Normalize() returns, every non-null value of a foreign-key column
\* occurs in the referenced column of the final rows of the referenced table.
C2_ReferentialIntegrity ==
    Returned =>
        \A k \in 1..Len(all_tables) : \A f \in 1..Len(all_tables[k].foreign_keys) :
            ForeignKeySatisfied(all_tables, all_tables[k], all_tables[k].foreign_keys[f])

\* C3: every fact table Normalize() returns has each column of its primary_key
\* among the columns of its rows.
C3_FactTablesCarryTheirKey ==
    Returned =>
        \A k \in 1..Len(all_tables) :
            IsFact(all_tables[k]) => KeyColumnsPresent(all_tables[k])

GroupColumns(df, id_column) ==
    {c \in Columns(df) : StartsWith(c, SubSeq(id_column, 1, Len(id_column) - 3) \o "_")}

SharedGroups(a, b) ==
    {c \in Columns(a.df) \cap Columns(b.df) :
        /\ EndsWith(c, "_id")
        /\ GroupColumns(a.df, c) = GroupColumns(b.df, c)
        /\ GroupColumns(a.df, c) # {c}}

DimensionName(id_column) == SubSeq(id_column, 1, Len(id_column) - 3) \o "_dimension"

SameDimension(tbls, others, name) ==
    /\ IndexOf(tbls, name) # 0 <=> IndexOf(others, name) # 0
    /\ IndexOf(tbls, name) # 0 =>
           RowSet(tbls[IndexOf(tbls, name)].df) = RowSet(others[IndexOf(others, name)].df)

\* C5: for two source tables that declare the same dimension attribute group
\* (the same `P_id` column and the same `P_` columns), Normalize() over the two in
\* the other order also returns, and returns a `P_dimension` with the same set of rows.
C5_DimensionMergeOrderIndependent ==
    (Returned /\ Len(tables) = 2) =>
        \A c \in SharedGroups(tables[1], tables[2]) :
            LET swapped == Normalize(<<tables[2], tables[1]>>)
            IN  /\ ~swapped.err
                /\ SameDimension(all_tables, swapped.tables, DimensionName(c))

IsKeyColumn(df, c) == IsUnique(Column(df, c)) /\ NotNaAll(Column(df, c))

NoAttributeGroup(df) ==
    \A c \in Columns(df) : EndsWith(c, "_id") => GroupColumns(df, c) \subseteq {c}

CleanInput ==
    /\ Len(tables) = 1
    /\ tables[1].df.cols # <<>>
    /\ IsKeyColumn(tables[1].df, tables[1].df.cols[1])
    /\ NoAttributeGroup(tables[1].df)

RoundTrip(key) ==
    /\ pc # "raised"
    /\ Returned =>
           /\ Len(all_tables) = 1
           /\ all_tables[1].name = tables[1].name
           /\ all_tables[1].primary_key = <<key>>
           /\ all_tables[1].df = tables[1].df

PreferredKey(t) ==
    IF HasCol(t.df, "id") /\ IsKeyColumn(t.df, "id") THEN "id"
    ELSE IF HasCol(t.df, t.name \o "_id") /\ IsKeyColumn(t.df, t.name \o "_id")
         THEN t.name \o "_id"
         ELSE t.df.cols[1]

Table(name) == all_tables[IndexOf(all_tables, name)]

\* C7: for products.csv with headers ProductID, ProductName, CategoryID,
\* Category Name and rows (1,Widget,10,Tools), (2,Gadget,10,Tools), Normalize()
\* returns exactly category_dimension with the one row (10, Tools) and the fact
\* table products with columns product_id, product_name, category_id, both rows,
\* and the foreign key (category_id, category_dimension, category_id).
C7_ProductsScenario ==
    (files = ProductsInput /\ Returned) =>
        /\ {all_tables[k].name : k \in 1..Len(all_tables)} = {"category_dimension", "products"}
        /\ Len(all_tables) = 2
        /\ Table("category_dimension").df.rows =
               << [c \in {"category_id", "category_name"} |->
                      IF c = "category_id" THEN IntVal(10) ELSE StrVal("Tools")] >>
        /\ Table("products").df.cols = <<"product_id", "product_name", "category_id">>
        /\ Table("products").df.rows =
               << [c \in {"product_id", "product_name", "category_id"} |->
                      CASE c = "product_id" -> IntVal(1)
                        [] c = "product_name" -> StrVal("Widget")
                        [] OTHER -> IntVal(10)],
                  [c \in {"product_id", "product_name", "category_id"} |->
                      CASE c = "product_id" -> IntVal(2)
                        [] c = "product_name" -> StrVal("Gadget")
                        [] OTHER -> IntVal(10)] >>
        /\ ForeignKeySpec("category_id", "category_dimension", "category_id")
               \in Range(Table("products").foreign_keys)

Keyed == base.table_name # ""

KeyedSource == tables[IndexOf(tables, base.table_name)]

NoUniqueColumn(df) == df.cols # <<>> /\ \A c \in Columns(df) : ~IsUnique(Column(df, c))

HoldsSequence(df, c, n) == HasCol(df, c) /\ Column(df, c) = [k \in 1..n |-> IntVal(k)]

PairWithoutDuplicates(df, a, b) ==
    LET both == {k \in 1..Len(df.rows) : df.rows[k][a] # NULL /\ df.rows[k][b] # NULL}
    IN  /\ both # {}
        /\ \A x, y \in both : x # y => <<df.rows[x][a], df.rows[x][b]>> # <<df.rows[y][a], df.rows[y][b]>>

NoPairKey(df) ==
    \A a, b \in 1..Min(Len(df.cols), 8) : a < b => ~PairWithoutDuplicates(df, df.cols[a], df.cols[b])

ExpectedSurrogate(t) ==
    IF HasCol(t.df, t.name \o "_id") THEN t.name \o "_surrogate_id" ELSE t.name \o "_id"

C10_EmptyTableGetsSurrogateKey ==
    (Keyed /\ KeyedSource.df.rows = <<>> /\ Len(tables) = 1) =>
        /\ base.primary_key \in {<<base.table_name \o "_id">>, <<base.table_name \o "_surrogate_id">>}
        /\ ~HasCol(KeyedSource.df, base.primary_key[1])
        /\ pc # "raised"
        /\ Returned => Table(base.table_name).df.rows = <<>>

StatementsOf(kind) == [k \in 1..Len(all_tables) |-> <<kind, all_tables[k].name>>]

ExpectedStatements ==
    (IF drop_existing THEN StatementsOf("DROP") ELSE <<>>)
        \o StatementsOf("CREATE") \o StatementsOf("COPY")

StatementFailed == mat_error \in {"DROP", "CREATE", "COPY"}

\* C4: Materialize is atomic over the whole table set: once a DROP, CREATE TABLE
\* or COPY statement of the call has failed, commit is never issued, the committed
\* tables stay as they were before the call, and the call ends only by raising, with
\* nothing of its transaction left on the connection; commit is issued at most once,
\* and only after every DROP (when drop_existing), CREATE TABLE and COPY of every
\* table has been issued in that order and succeeded; a call that returns has
\* committed exactly once.
C4_MaterializeAtomic ==
    /\ commits <= 1
    /\ StatementFailed =>
           /\ commits = 0
           /\ database = before
           /\ mpc \in {"release", "raised"}
    /\ mpc = "raised" =>
           /\ mat_error # ""
           /\ database = before
           /\ session = database
           /\ status = "idle"
    /\ commits = 1 => log = ExpectedStatements
    /\ mpc = "returned" =>
           /\ commits = 1
           /\ mat_error = ""
           /\ database = session
           /\ \A k \in 1..Len(all_tables) :
                  /\ database[all_tables[k].name].exists
                  /\ "loaded" \in database[all_tables[k].name].rows

C4_Witness ==
    /\ mpc = "raised"
    /\ mat_error = "COPY"
    /\ Len(all_tables) = 2
    /\ log = SubSeq(ExpectedStatements, 1, Len(ExpectedStatements))
    /\ drop_existing
    /\ \E t \in DbNames : before[t] = Existing /\ <<"DROP", t>> \in Range(log)

Referenced(fk) == all_tables[IndexOf(all_tables, fk.ref_table)]

KeepsRow(t, r) ==
    \A k \in 1..Len(t.foreign_keys) :
        LET fk == t.foreign_keys[k]
        IN  \/ r[fk.column] = NULL
            \/ \E m \in 1..Len(Referenced(fk).df.rows) :
                   Referenced(fk).df.rows[m][fk.ref_column] = r[fk.column]

\* C8: when referential-integrity enforcement processes a table without raising,
\* a row is kept if and only if, for every ForeignKeySpec of the table, its
\* foreign-key value is null or occurs in ref_column of the referenced table's
\* rows; the kept rows keep their values and order, the columns and every other
\* table stay as they were; and in the orders/customers scenario orders loses
\* exactly its one row with customer_id = 999.
C8_EnforcementRemovesExactlyOrphans ==
    [][ (pc = "enforce" /\ pc' \in {"enforce", "done"}) =>
            /\ all_tables'[j].df.cols = all_tables[j].df.cols
            /\ all_tables'[j].df.rows =
                   SelectSeq(all_tables[j].df.rows, LAMBDA r : KeepsRow(all_tables[j], r))
            /\ \A k \in 1..Len(all_tables) : k # j => all_tables'[k] = all_tables[k]
            /\ Len(all_tables') = Len(all_tables)
            /\ (files = OrdersInput /\ all_tables[j].name = "orders") =>
                   /\ Len(all_tables'[j].df.rows) = Len(all_tables[j].df.rows) - 1
                   /\ \A m \in 1..Len(all_tables'[j].df.rows) :
                          all_tables'[j].df.rows[m]["customer_id"] # IntVal(999) ]_vars

C8_Witness ==
    /\ files = OrdersInput
    /\ Returned
    /\ Len(Table("customers").df.rows) = 2
    /\ Table("orders").df.rows =
           << [c \in {"order_id", "customer_id"} |-> IntVal(1)] >>

\* C11: column-name canonicalization is idempotent: every column name of a
\* loaded table, which is the canonical form of its raw header name, is its own
\* canonical form.
C11_CanonicalizationIdempotent ==
    pc # "load" =>
        \A k \in 1..Len(tables) : \A c \in Columns(tables[k].df) : NormalizeName(c) = c

Separators == {" ", "-", "/"}

\* s lower-cased, every run of spaces, hyphens and slashes replaced by one underscore
RECURSIVE CollapseSeparators(_)
CollapseSeparators(s) ==
    IF s = "" THEN ""
    ELSE IF Char(s, 1) \in Separators
         THEN IF Len(s) > 1 /\ Char(s, 2) \in Separators
              THEN CollapseSeparators(SubSeq(s, 2, Len(s)))
              ELSE "_" \o CollapseSeparators(SubSeq(s, 2, Len(s)))
         ELSE LowerChar(Char(s, 1)) \o CollapseSeparators(SubSeq(s, 2, Len(s)))

\* C20: the table name derived for a file is its stem lower-cased with every run
\* of spaces, hyphens and slashes replaced by a single underscore (checked for the
\* stems a path can have: those without a slash).
C20_TableNameCollapsesSeparators ==
    (pc # "load" /\ Len(files) = 1 /\ Len(tables) = 1 /\ ~Contains(files[1].stem, "/")) =>
        tables[1].name = CollapseSeparators(files[1].stem)

AllExist == \A k \in 1..Len(files) : files[k].exists

Loaded == pc # "load" /\ error # "FileNotFoundError"

TableNamed(name) == tables[IndexOf(tables, name)]

\* C12: when two discovered files that both load derive the same table name,
\* Load raises nothing and returns exactly one table under that name: the one
\* loaded from the file that comes last in sorted path order.
C12_LastDiscoveredWins ==
    (pc # "load" /\ Len(files) = 2 /\ AllExist
        /\ ~LoadRaises(files[1]) /\ ~LoadRaises(files[2])
        /\ DeriveTableName(files[1].stem) = DeriveTableName(files[2].stem)) =>
            /\ error \notin {"FileNotFoundError", "ValueError"}
            /\ Len(tables) = 1
            /\ tables[1].name = DeriveTableName(files[2].stem)
            /\ tables[1].df.cols = <<"id">>
            /\ tables[1].df.rows = << [c \in {"id"} |-> files[2].rows[1][1]] >>

C12_Witness ==
    /\ pc = "profile"
    /\ Len(files) = 2
    /\ files[1].stem = "My Data" /\ files[2].stem = "my_data"
    /\ ~LoadRaises(files[1]) /\ ~LoadRaises(files[2])
    /\ files[1].rows # files[2].rows
    /\ Len(tables) = 1

\* C13: a parse failure is local to its file: when every candidate exists, Load
\* raises nothing (only the caller's check raises, and only when no file loads),
\* the returned names are exactly those derived by the files that load, each
\* table is read from the last file that loads under its name, and a file is read
\* at most twice, twice only after a bad-delimiter error.
LoadingFiles == {k \in 1..Len(files) : files[k].fault \in {"none", "bad_delimiter"}}

LastLoading(name) ==
    CHOOSE k \in LoadingFiles :
        /\ DeriveTableName(files[k].stem) = name
        /\ \A m \in LoadingFiles : DeriveTableName(files[m].stem) = name => m <= k

C13_ParseFailureIsLocal ==
    (pc # "load" /\ AllExist) =>
        /\ error # "FileNotFoundError"
        /\ error = "ValueError" <=> LoadingFiles = {}
        /\ {tables[k].name : k \in 1..Len(tables)} =
               {DeriveTableName(files[k].stem) : k \in LoadingFiles}
        /\ \A k \in 1..Len(tables) :
               /\ \A m \in 1..Len(tables) : tables[m].name = tables[k].name => m = k
               /\ LET f == files[LastLoading(tables[k].name)]
                  IN  Len(f.rows) = Len(tables[k].df.rows)
                      /\ \A r \in 1..Len(f.rows) : \A c \in 1..Len(f.header) :
                             tables[k].df.rows[r][tables[k].df.cols[c]] = f.rows[r][c]
        /\ \A k \in 1..Len(files) :
               /\ reads[k] <= 2
               /\ reads[k] = 2 <=> files[k].fault \in {"bad_delimiter", "bad_delimiter_twice"}

C13_Witness ==
    /\ pc = "profile"
    /\ Len(files) = 2
    /\ files[1].fault = "bad_delimiter_twice"
    /\ files[2].fault = "none"
    /\ reads = <<2, 1>>
    /\ Len(tables) = 1
    /\ tables[1].name = DeriveTableName(files[2].stem)

\* C14: with an explicit file list, a listed path that does not exist is fatal
\* for that file only: Load does not raise, and every listed file that exists and
\* loads is in the returned mapping.
C14_MissingPathIsLocal ==
    (pc # "load" /\ ~AllExist) =>
        /\ error # "FileNotFoundError"
        /\ \A k \in 1..Len(files) :
               (files[k].exists /\ ~LoadRaises(files[k])) =>
                   IndexOf(tables, DeriveTableName(files[k].stem)) # 0

\* C15: when no CSV file is discovered, or every discovered file fails to load,
\* build_normalized_database ends at the check of the loaded tables with
\* ValueError: it goes on to no later step, borrows no connection and issues no
\* DROP, CREATE or COPY and no commit.
NothingLoads == \A k \in 1..Len(files) : LoadRaises(files[k])

C15_EmptySourceSetRaisesBeforeDatabase ==
    (AllExist /\ NothingLoads) =>
        /\ pc \in {"load", "raised"}
        /\ pc = "raised" => error = "ValueError"
        /\ mpc = "idle"
        /\ status = "idle"
        /\ log = <<>>
        /\ commits = 0
        /\ database = before /\ session = before

C15_Witness ==
    /\ Len(files) = 2
    /\ NothingLoads
    /\ pc = "raised"
    /\ error = "ValueError"
    /\ mpc = "idle"

\* C16: the validator is a gate in front of the database: execute_query borrows
\* a connection or sends a statement only for a query that validate() accepts; a
\* rejected query, every query with the word INSERT, UPDATE or DELETE among them,
\* ends the call with ValueError("Invalid query: ...") with no connection borrowed
\* and no statement sent.
C16_ValidatorIsAGate ==
    /\ (borrowed > 0 \/ sent # <<>>) => Validate(query).ok
    /\ (qpc \notin {"idle", "call"} /\ ~Validate(query).ok) =>
           /\ qpc = "raised"
           /\ qerror = "ValueError: Invalid query"
           /\ borrowed = 0
           /\ sent = <<>>
    /\ (\E k \in 1..Len(query) : query[k] \in {"INSERT", "UPDATE", "DELETE"}) =>
           /\ ~Validate(query).ok
           /\ qpc \in {"call", "raised"}

C16_Witness ==
    /\ qpc = "raised"
    /\ query = <<"DELETE", "FROM", "PRODUCTS">>
    /\ qerror = "ValueError: Invalid query"
    /\ borrowed = 0

\* the entries recorded with success=True, a non-null sql_query and the question
\* of the lookup after trimming, in the order of their recording
Qualifying(question) ==
    {k \in 1..Len(history) :
        /\ history[k].success = 1
        /\ history[k].sql_query # NoSql
        /\ history[k].question = Strip(question, Whitespace)}

\* C17: lookup(q) returns the most recently recorded entry among those recorded
\* with success=True, a non-null sql_query and a question equal to q after
\* trimming, also when several were recorded within one second; it returns None
\* when there is no such entry.
C17_LookupReturnsMostRecent ==
    hcall.op = "lookup" =>
        IF Qualifying(hcall.question) = {}
        THEN hcall.result = None
        ELSE \E k \in Qualifying(hcall.question) :
                /\ \A o \in Qualifying(hcall.question) : o <= k
                /\ hcall.result = history[k].sql_query

\* generate_sql was called with the schema context set and nothing to reuse
FreshGeneration ==
    /\ gpc # "idle"
    /\ schema_context
    /\ ~(historic # <<>> /\ ~(requires_ties /\ ~SupportsTies(historic)))

\* C18: with the schema context set and no reusable history entry, generate_sql
\* calls the model at most max_retries + 1 times; when it has ended it has
\* returned SQL that validate() accepts, with metadata attempts equal to the
\* 1-based number of the model call that produced it, or it has raised
\* ValueError; an invalid response on a non-final attempt is followed by another
\* model call.
C18_GenerationIsBoundedAndValidated ==
    FreshGeneration =>
        /\ Len(responses) <= max_retries + 1
        /\ gpc \in {"call", "loop", "returned", "raised"}
        /\ gpc = "raised" => gerror = "ValueError" /\ gresult = NoResult
        /\ gpc = "returned" =>
               /\ gerror = ""
               /\ Validate(gresult.sql).ok
               /\ gresult.attempts = Len(responses)
               /\ gresult.attempts >= 1
               /\ gresult.sql \in {responses[Len(responses)],
                                   ApplyTiesPatch(responses[Len(responses)])}
        /\ \A k \in 1..Len(responses) :
               (responses[k] # Failure /\ ~Validate(responses[k]).ok /\ k <= max_retries) =>
                   \/ Len(responses) > k
                   \/ gpc = "loop" /\ attempt = k

C18_Witness ==
    /\ FreshGeneration
    /\ gpc = "returned"
    /\ max_retries = 1
    /\ responses = <<<<"INSERT", "INTO", "T">>, <<"SELECT", "A", "LIMIT", "1">>>>
    /\ requires_ties
    /\ gresult.sql = <<"SELECT", "A", "FETCH", "FIRST", "1", "ROWS", "WITH", "TIES", ";">>
    /\ gresult.attempts = 2

\* the set calls before call n on the key of call n with no clear and no other
\* set on that key between them and call n
StandingSets(n) ==
    {m \in 1..(n - 1) :
        /\ clog[m].op = "set"
        /\ NormalizeKey(clog[m].sql) = NormalizeKey(clog[n].sql)
        /\ \A o \in (m + 1)..(n - 1) :
               /\ clog[o].op # "clear"
               /\ ~(clog[o].op = "set" /\ NormalizeKey(clog[o].sql) = NormalizeKey(clog[n].sql))}

\* C19: on an enabled in-memory QueryCache, a get(sql) made after set(sql, payload)
\* returns that payload when no more than ttl_seconds have passed since the set
\* and no later set or clear touched the key; a disabled cache returns None from
\* every get.
C19_CacheRoundTrip ==
    \A n \in 1..Len(clog) :
        clog[n].op = "get" =>
            /\ ~enabled => clog[n].value = None
            /\ enabled =>
                   \A m \in StandingSets(n) :
                       clog[n].at - clog[m].at <= ttl_seconds =>
                           clog[n].value = clog[m].value

C19_Witness ==
    /\ enabled
    /\ ttl_seconds = 1
    /\ Len(clog) = 3
    /\ clog[1].op = "set" /\ clog[1].sql = "q" /\ clog[1].value = "p1"
    /\ clog[2].op = "set" /\ clog[2].sql = " q" /\ clog[2].value = "p2"
    /\ clog[3].op = "get" /\ clog[3].sql = "q" /\ clog[3].value = "p2"
    /\ clog[3].at = clog[2].at + 1

\* a returned table that is a dimension: extracted from a source table, and not
\* the fact table of a source table
IsDimension(t) == ~IsFact(t) /\ IndexOf(dimension_tables, t.name) # 0

\* C21: no dimension table returned by Normalize() has a ForeignKeySpec, and the
\* rows of a dimension table are those it had before enforcement.
C21_DimensionsAreLeaves ==
    Returned =>
        \A k \in 1..Len(all_tables) :
            IsDimension(all_tables[k]) =>
                /\ all_tables[k].foreign_keys = <<>>
                /\ all_tables[k].df =
                       DictMerge(NormalizeLoop(tables, 1, <<>>, <<>>).dimension_tables,
                                 NormalizeLoop(tables, 1, <<>>, <<>>).normalized)[k].df

\* the foreign keys of the tables are registered
Registered == pc \in {"enforce", "done"}

\* the positions in all_tables of the tables other than t that have c in their
\* primary key
OtherOwners(t, c) ==
    {k \in 1..Len(all_tables) :
        all_tables[k].name # t.name /\ c \in Range(all_tables[k].primary_key)}

\* c is a column of t that foreign-key inference looks at
InferenceColumn(t, c) ==
    HasCol(t.df, c) /\ EndsWith(c, "_id") /\ c \notin Range(t.primary_key)

\* C22: after foreign-key inference, a table T has a ForeignKeySpec on column c
\* exactly when c is a column of T ending in `_id`, outside T's primary key, that
\* some other table has in its primary key; the spec is (c, R, c) with R the
\* first such table in the order of the registry; no spec refers to its own
\* table, and no (column, ref_table) pair occurs twice on a table.
C22_ForeignKeyInference ==
    Registered =>
        \A n \in 1..Len(all_tables) :
            LET t == all_tables[n]
            IN  /\ \A c \in Columns(t.df) \cup {t.foreign_keys[f].column : f \in 1..Len(t.foreign_keys)} :
                       (\E f \in 1..Len(t.foreign_keys) : t.foreign_keys[f].column = c)
                           <=> (InferenceColumn(t, c) /\ OtherOwners(t, c) # {})
                /\ \A f \in 1..Len(t.foreign_keys) :
                       LET fk == t.foreign_keys[f]
                       IN  /\ fk.ref_column = fk.column
                           /\ fk.ref_table # t.name
                           /\ \E k \in OtherOwners(t, fk.column) :
                                  /\ all_tables[k].name = fk.ref_table
                                  /\ \A o \in OtherOwners(t, fk.column) : k <= o
                /\ \A f, g \in 1..Len(t.foreign_keys) :
                       (t.foreign_keys[f].column = t.foreign_keys[g].column
                            /\ t.foreign_keys[f].ref_table = t.foreign_keys[g].ref_table) => f = g

C22_Witness ==
    /\ Returned
    /\ \E n \in 1..Len(all_tables) : \E f \in 1..Len(all_tables[n].foreign_keys) :
           /\ Cardinality(OtherOwners(all_tables[n], all_tables[n].foreign_keys[f].column)) >= 2
           /\ all_tables[n].df.rows # <<>>

\* the candidate keys the profiler listed for the table that was keyed last
KeyedCandidates == profiles[IndexOf(tables, base.table_name)]

HasId(group) == "id" \in Range(group)

HasTableId(group) == (base.table_name \o "_id") \in Range(group)

\* group g comes strictly before group h in the order of the claim
Precedes(g, h) ==
    \/ HasId(g) /\ ~HasId(h)
    \/ /\ HasId(g) = HasId(h)
       /\ \/ HasTableId(g) /\ ~HasTableId(h)
          \/ HasTableId(g) = HasTableId(h) /\ Len(g) < Len(h)

\* C23: when the profile of a table lists candidate keys (all of whose columns
\* the table has), the primary key chosen is the group that no other group
\* precedes in the order (has no `id`, has no `{table}_id`, number of columns),
\* and among the groups of that rank the one the profiler listed first; a group
\* with `id` is chosen before one with `{table}_id`.
C23_PrimaryKeyChoice ==
    (Keyed /\ KeyedCandidates # <<>>) =>
        \E k \in 1..Len(KeyedCandidates) :
            /\ base.primary_key = KeyedCandidates[k]
            /\ \A m \in 1..Len(KeyedCandidates) :
                   /\ ~Precedes(KeyedCandidates[m], KeyedCandidates[k])
                   /\ m < k => Precedes(KeyedCandidates[k], KeyedCandidates[m])
            /\ (\E m \in 1..Len(KeyedCandidates) : HasId(KeyedCandidates[m])) =>
                   HasId(KeyedCandidates[k])

C23_Witness ==
    /\ Keyed
    /\ KeyedCandidates = << <<"a_id">>, <<"id">> >>
    /\ base.primary_key = <<"id">>
    /\ Len(KeyedSource.df.rows) = 2

\* the number of null cells of column c in the first k rows of df
NullsUpTo(df, c, k) == Cardinality({m \in 1..k : df.rows[m][c] = NULL})

\* C24: when a candidate key is chosen, the k-th null cell, in row order, of a
\* chosen key column becomes the string `{table}_{column}_missing_{k}`; the
\* table keeps its columns, the number and the order of its rows, and every
\* other cell keeps its value.
C24_NullBackfill ==
    (Keyed /\ KeyedCandidates # <<>>) =>
        /\ base.df.cols = KeyedSource.df.cols
        /\ Len(base.df.rows) = Len(KeyedSource.df.rows)
        /\ \A k \in 1..Len(KeyedSource.df.rows) : \A c \in Columns(KeyedSource.df) :
               base.df.rows[k][c] =
                   IF c \in Range(base.primary_key) /\ KeyedSource.df.rows[k][c] = NULL
                   THEN StrVal(base.table_name \o "_" \o c \o "_missing_"
                                   \o ToString(NullsUpTo(KeyedSource.df, c, k)))
                   ELSE KeyedSource.df.rows[k][c]

C24_Witness ==
    /\ Keyed
    /\ KeyedCandidates # <<>>
    /\ base.df.cols = <<"a_id", "p_id">>
    /\ Len(base.df.rows) = 3
    /\ base.df.rows[1]["p_id"] = StrVal("a_p_id_missing_1")
    /\ base.df.rows[2]["p_id"] = IntVal(1)
    /\ base.df.rows[3]["p_id"] = StrVal("a_p_id_missing_2")
    /\ base.df.rows[3]["a_id"] = IntVal(2)

Detected == dialect # NoDialect

ValidChar(c) == Len(c) = 1

MatchingRows(fk, v) ==
    {m \in 1..Len(Referenced(fk).df.rows) : Referenced(fk).df.rows[m][fk.ref_column] = v}

\* C26: for every ForeignKeySpec (c, R, rc) of a table Normalize() returned, the
\* primary key of R is exactly the one column rc, and each non-null value of the
\* foreign-key column matches at most one row of R.
C26_ForeignKeysReferenceKeys ==
    Returned =>
        \A n \in 1..Len(all_tables) : \A f \in 1..Len(all_tables[n].foreign_keys) :
            LET fk == all_tables[n].foreign_keys[f]
            IN  /\ IndexOf(all_tables, fk.ref_table) # 0
                /\ Referenced(fk).primary_key = <<fk.ref_column>>
                /\ \A k \in 1..Len(all_tables[n].df.rows) :
                       all_tables[n].df.rows[k][fk.column] # NULL =>
                           Cardinality(MatchingRows(fk, all_tables[n].df.rows[k][fk.column])) <= 1

\* the positions in the log of the statements of one kind on one table
StatementAt(kind, name) == {x \in 1..Len(log) : log[x] = <<kind, name>>}

\* C27: materialize() issues its statements in the order of the foreign keys: for
\* every ForeignKeySpec of a table T that refers to a table R of the set, CREATE
\* TABLE R comes before CREATE TABLE T, and the COPY of R before the COPY of T.
C27_MaterializeRespectsDependencies ==
    \A n \in 1..Len(all_tables) : \A f \in 1..Len(all_tables[n].foreign_keys) :
        LET t == all_tables[n].name
            r == all_tables[n].foreign_keys[f].ref_table
        IN  IndexOf(all_tables, r) # 0 =>
                \A kind \in {"CREATE", "COPY"} :
                    \A x \in StatementAt(kind, t) : \E y \in StatementAt(kind, r) : y < x

\* key assignment synthesized a surrogate key for the table that was keyed last
SurrogateAssigned == Keyed /\ KeyedCandidates = <<>>

\* C28: a synthesized surrogate key is written to a column the source table did
\* not have, and every column of the source table keeps its values.
C28_SurrogateKeepsSourceData ==
    SurrogateAssigned =>
        /\ Len(base.primary_key) = 1
        /\ ~HasCol(KeyedSource.df, base.primary_key[1])
        /\ \A c \in Columns(KeyedSource.df) :
               HasCol(base.df, c) /\ Column(base.df, c) = Column(KeyedSource.df, c)

DimensionNames == {dimension_tables[k].name : k \in 1..Len(dimension_tables)}

\* C29: the mapping Normalize() returns has one entry for every source table, its
\* fact table, and one entry for every dimension registered during the run; its
\* size is the number of source tables plus the number of dimension names.
C29_NoTableLost ==
    Returned =>
        /\ Len(all_tables) = Cardinality(SourceNames) + Cardinality(DimensionNames)
        /\ \A name \in SourceNames :
               /\ IndexOf(all_tables, name) # 0
               /\ Table(name).source_tables = <<name>>
        /\ \A k \in 1..Len(dimension_tables) :
               /\ IndexOf(all_tables, dimension_tables[k].name) # 0
               /\ Table(dimension_tables[k].name).primary_key = dimension_tables[k].primary_key
               /\ Table(dimension_tables[k].name).source_tables = dimension_tables[k].source_tables

\* C30: a second normalize() call on the same engine returns tables equal to
\* those of the first call, in names, rows, primary keys, foreign keys and
\* source-table lists, and leaves the tables the first call returned as they were.
C30_NormalizeRepeatable ==
    pc = "again" =>
        /\ again = Normalize(tables).tables
        /\ all_tables = Normalize(tables).tables

====
